---- MODULE Spec2Model ----
(***************************************************************************)
(* Scene lifecycle scheduler of the pixel-art clock: SceneManager          *)
(* (scene_manager.py), the display-mode helpers (time_utils.py) and the    *)
(* host loop that drives them (main.py).                                   *)
(*                                                                         *)
(* One action is one run of a handler.  The SceneManager object is the     *)
(* record "m" that the operators below thread through the calls of one     *)
(* handler, in the order the Python code makes them; m.trace lists the     *)
(* calls made on scene instances (constructor, update, render, cleanup)    *)
(* during that handler.                                                    *)
(***************************************************************************)
EXTENDS Integers, Sequences, FiniteSets, TLC

\* ---------------------------------------------------------------- bounds
\* wall-clock seconds the model follows time.time() for
MaxTime == 120
\* scene instances constructed in one run of the program
MaxInstances == 3
\* RTC hour roll-overs in one run of the program
MaxHourChanges == 3
\* randint results tried for one random selection
MaxChoice == 2

\* swaps made in one run of the selection policy on its own
MaxSwaps == 6

\* parts in an image path
MaxPathLen == 4
MaxScenes == 3

\* ------------------------------------------------------------- constants
\* config.SCENE_DURATION, seconds
SCENE_DURATION == 60

\* time.time() advances between loop iterations by one of these amounts
TimeSteps == {30}

Hours == 0..23

\* the hours the program is started at: before, at and after a mode change
\* of each schedule below
StartHours == {7, 8, 17, 20, 22}

\* the three display modes of config.MODE_SCHEDULE
Modes == {"normal", "dark", "off"}

\* Python's None for a preference / a display mode that was never set
None == "None"

\* self.current_scene = None
NoScene == [id |-> 0, index |-> -1, display_mode |-> None,
            resolved_image_path |-> None]

\* a path is the sequence of its parts, "." and "/" being parts of their own;
\* the image the configured image scenes show, "a.a"
DefaultImage == << "a", ".", "a" >>

\* the scene classes create_scene_manager_from_config knows by name
scene_classes_by_name == {"ScrollingImageScene", "StaticImageScene", "CubeScene"}

\* constructors that open a file (png_decoder.open_file) and so can raise
CanRaise(cls) == cls \in {"ScrollingImageScene", "StaticImageScene"}

\* ------------------------------------------------------- configurations
\* mode schedules (config.MODE_SCHEDULE): a dict hour -> mode
ScheduleConfig == (9 :> "normal") @@ (21 :> "dark") @@ (23 :> "off")
ScheduleDayNight == (9 :> "normal") @@ (18 :> "dark")
ScheduleAdjacent == (8 :> "off") @@ (9 :> "normal") @@ (10 :> "dark")
Schedules == {ScheduleConfig, ScheduleDayNight, ScheduleAdjacent}

\* scene lists (config.SCENES): tuples (name, args, kwargs, preference) of
\* length len; a tuple shorter than 4 carries no preference, one shorter than
\* 3 no kwargs
\* the scenes that show an image: image_path is their first argument
ImageScenes == {"ScrollingImageScene", "StaticImageScene"}

\* a tuple of config.SCENES: args is the tuple of positional arguments and
\* kwargs the dict of keyword arguments, here empty
EntryWith(name, len, pref, image_path) ==
    [ name |-> name, len |-> len, pref |-> pref,
      args |-> IF name \in ImageScenes THEN << image_path >> ELSE << >>,
      kwargs |-> << >> ]
Entry(name, len, pref) == EntryWith(name, len, pref, DefaultImage)
ScenesNightAnyDay ==
    << Entry("ScrollingImageScene", 4, "night"),
       Entry("CubeScene", 3, None),
       Entry("StaticImageScene", 4, "day") >>
ScenesOneValid ==
    << Entry("TetrisScene", 3, None),
       Entry("StaticImageScene", 1, None),
       Entry("CubeScene", 2, None) >>
ScenesDayOnly ==
    << Entry("StaticImageScene", 4, "day"),
       Entry("CubeScene", 4, "day") >>
SceneConfigs == {ScenesNightAnyDay, ScenesOneValid, ScenesDayOnly}
ScenesFourAny ==
    << Entry("CubeScene", 3, None),
       Entry("StaticImageScene", 3, None),
       Entry("ScrollingImageScene", 3, None),
       Entry("CubeScene", 4, None) >>

VARIABLES
    MODE_SCHEDULE,        \* config.MODE_SCHEDULE
    SCENES,               \* config.SCENES
    SCENE_SELECTION,      \* config.SCENE_SELECTION
    rtc_hour,             \* rtc.datetime()[4]
    now,                  \* time.time()
    hour_fresh,           \* the hour changed since the last full loop iteration began
    hour_changes,         \* RTC hour roll-overs so far
    pc,                   \* "boot", "running" or "crashed" (uncaught exception)
    scene_classes,        \* SceneManager.scene_classes
    current_scene,        \* SceneManager.current_scene
    current_scene_index,  \* SceneManager.current_scene_index
    scene_start_time,     \* SceneManager.scene_start_time
    current_mode,         \* SceneManager.current_mode
    scene_duration,       \* SceneManager.scene_duration
    files,                \* the paths os.stat finds in the file system
    next_id,              \* identity of the next constructed instance
    current_display_mode, \* main.py: current_display_mode
    off_time,             \* seconds of Off mode since scene_start_time was set
    trace,                \* calls made on scene instances by the last handler
    last,                 \* what the last handler read and decided
    frame,                \* call stack and locals of a call run step by step
    game                  \* the fields of a scene object whose update() is run

vars == << MODE_SCHEDULE, SCENES, SCENE_SELECTION, rtc_hour, now, hour_fresh,
           hour_changes, pc,
           scene_classes, current_scene, current_scene_index, scene_start_time,
           current_mode, scene_duration, files, next_id, current_display_mode,
           off_time, trace, last, frame, game >>

\* no call in progress
NoFrame ==
    [ stack |-> << >>, mode |-> None, sorted_hours |-> << >>, h |-> 0,
      i |-> 0, active_indices |-> << >>, next_index |-> 0 ]

\* ------------------------------------------------------------- time_utils
\* sorted(mode_schedule.keys())
RECURSIVE sorted(_)
sorted(S) ==
    IF S = {} THEN << >>
    ELSE LET least == CHOOSE x \in S : \A y \in S : x <= y
         IN << least >> \o sorted(S \ {least})

\* the for loop of get_current_mode over sorted_hours from position i
RECURSIVE scan_hours(_, _, _, _, _)
scan_hours(mode_schedule, sorted_hours, current_hour, i, found) ==
    IF i > Len(sorted_hours) THEN found
    ELSE IF current_hour >= sorted_hours[i]
         THEN scan_hours(mode_schedule, sorted_hours, current_hour, i + 1,
                         mode_schedule[sorted_hours[i]])
         ELSE found

\* get_current_mode falling back to the first entry, not the last, when the
\* hour is before every scheduled hour
get_current_mode_no_wrap(current_hour, mode_schedule) ==
    IF DOMAIN mode_schedule = {} THEN "normal"
    ELSE LET sorted_hours == sorted(DOMAIN mode_schedule)
             found == scan_hours(mode_schedule, sorted_hours, current_hour, 1, None)
         IN IF found = None
            THEN mode_schedule[sorted_hours[1]]
            ELSE found

\* get_current_mode without a default for an empty schedule
get_current_mode_no_default(current_hour, mode_schedule) ==
    IF DOMAIN mode_schedule = {} THEN None
    ELSE LET sorted_hours == sorted(DOMAIN mode_schedule)
             found == scan_hours(mode_schedule, sorted_hours, current_hour, 1, None)
         IN IF found = None
            THEN mode_schedule[sorted_hours[Len(sorted_hours)]]
            ELSE found

get_current_mode(current_hour, mode_schedule) ==
    IF DOMAIN mode_schedule = {} THEN "normal"
    ELSE LET sorted_hours == sorted(DOMAIN mode_schedule)
             found == scan_hours(mode_schedule, sorted_hours, current_hour, 1, None)
         IN IF found = None
            THEN mode_schedule[sorted_hours[Len(sorted_hours)]]
            ELSE found

\* is_scene_active_in_mode without the off-mode check
is_scene_active_in_mode_no_off_check(scene_preference, mode) ==
    IF scene_preference = None THEN TRUE
    ELSE IF scene_preference = "day" THEN mode = "normal"
    ELSE IF scene_preference = "night" THEN mode = "dark"
    ELSE TRUE

\* is_scene_active_in_mode refusing a preference it does not know
is_scene_active_in_mode_unknown_inactive(scene_preference, mode) ==
    IF mode = "off" THEN FALSE
    ELSE IF scene_preference = None THEN TRUE
    ELSE IF scene_preference = "day" THEN mode = "normal"
    ELSE IF scene_preference = "night" THEN mode = "dark"
    ELSE FALSE

\* is_scene_active_in_mode
is_scene_active_in_mode(scene_preference, mode) ==
    IF mode = "off" THEN FALSE
    ELSE IF scene_preference = None THEN TRUE
    ELSE IF scene_preference = "day" THEN mode = "normal"
    ELSE IF scene_preference = "night" THEN mode = "dark"
    ELSE TRUE

\* the position of the last "." of a path, 0 when it has none
last_dot(image_path) ==
    IF \E p \in 1..Len(image_path) : image_path[p] = "."
    THEN CHOOSE p \in 1..Len(image_path) :
             /\ image_path[p] = "."
             /\ \A q \in (p + 1)..Len(image_path) : image_path[q] # "."
    ELSE 0

\* resolve_image_path_for_mode; os.stat succeeds on the paths in files
resolve_image_path_for_mode(image_path, mode) ==
    IF mode # "dark" \/ image_path = << >> THEN image_path
    ELSE LET dot == last_dot(image_path)
             night_variant_path ==
                 IF dot # 0
                 THEN SubSeq(image_path, 1, dot - 1) \o << "_night", "." >>
                      \o SubSeq(image_path, dot + 1, Len(image_path))
                 ELSE image_path \o << "_night" >>
         IN IF night_variant_path \in files THEN night_variant_path
            ELSE image_path

\* ---------------------------------------------------------- SceneManager
\* one call made on a scene instance
Ev(op, id, index) == [op |-> op, id |-> id, index |-> index]

\* the SceneManager object at the start of a handler
manager ==
    [ current_scene |-> current_scene,
      current_scene_index |-> current_scene_index,
      scene_start_time |-> scene_start_time,
      current_mode |-> current_mode,
      scene_classes |-> scene_classes,
      next_id |-> next_id,
      trace |-> << >>,
      raised |-> FALSE,    \* an exception is propagating
      changed |-> FALSE,   \* should_check_mode() returned True
      forced |-> FALSE,    \* update() took the "no longer active" branch
      timed |-> FALSE ]    \* update() took the scene_duration branch

\* create_scene setting display_mode in the registry's own kwargs dict
create_scene_without_copy(m, scene_index, ok) ==
    IF scene_index < 0 \/ scene_index >= Len(m.scene_classes)
    THEN [m |-> m, ret |-> NoScene]
    ELSE LET scene_data == m.scene_classes[scene_index + 1]
             kwargs_with_mode == ("display_mode" :> m.current_mode) @@ scene_data.kwargs
             stored == [m EXCEPT !.scene_classes[scene_index + 1].kwargs =
                                     kwargs_with_mode]
             started == Append(m.trace, Ev("ctor_start", m.next_id, scene_index))
         IN IF ok \/ ~CanRaise(scene_data.scene_class)
            THEN [m |-> [stored EXCEPT !.trace = Append(started,
                                      Ev("ctor_end", m.next_id, scene_index)),
                                  !.next_id = m.next_id + 1],
                  ret |-> [id |-> m.next_id, index |-> scene_index,
                           display_mode |-> kwargs_with_mode["display_mode"],
                           resolved_image_path |->
                               IF scene_data.scene_class \in ImageScenes
                               THEN resolve_image_path_for_mode(
                                        scene_data.args[1],
                                        kwargs_with_mode["display_mode"])
                               ELSE None]]
            ELSE [m |-> [stored EXCEPT !.trace = Append(started,
                                      Ev("ctor_raise", m.next_id, scene_index)),
                                  !.raised = TRUE],
                  ret |-> NoScene]

\* create_scene: the instance, or None for an index out of range; ok = FALSE
\* is the constructor raising, which only a constructor that opens a file does
create_scene(m, scene_index, ok) ==
    IF scene_index < 0 \/ scene_index >= Len(m.scene_classes)
    THEN [m |-> m, ret |-> NoScene]
    ELSE LET scene_data == m.scene_classes[scene_index + 1]
             kwargs_with_mode == ("display_mode" :> m.current_mode) @@ scene_data.kwargs
             started == Append(m.trace, Ev("ctor_start", m.next_id, scene_index))
         IN IF ok \/ ~CanRaise(scene_data.scene_class)
            THEN [m |-> [m EXCEPT !.trace = Append(started,
                                      Ev("ctor_end", m.next_id, scene_index)),
                                  !.next_id = m.next_id + 1],
                  ret |-> [id |-> m.next_id, index |-> scene_index,
                           display_mode |-> kwargs_with_mode["display_mode"],
                           resolved_image_path |->
                               IF scene_data.scene_class \in ImageScenes
                               THEN resolve_image_path_for_mode(
                                        scene_data.args[1],
                                        kwargs_with_mode["display_mode"])
                               ELSE None]]
            ELSE [m |-> [m EXCEPT !.trace = Append(started,
                                      Ev("ctor_raise", m.next_id, scene_index)),
                                  !.raised = TRUE],
                  ret |-> NoScene]

\* switch_to_scene constructing the new scene before it cleans up the old one
switch_to_scene_construct_first(m, scene_index, t, ok) ==
    LET c == create_scene(m, scene_index, ok)
        m1 == IF c.m.raised \/ m.current_scene = NoScene THEN c.m
              ELSE [c.m EXCEPT !.trace = Append(c.m.trace,
                        Ev("cleanup", m.current_scene.id, m.current_scene.index))]
    IN IF m1.raised THEN m1
       ELSE [m1 EXCEPT !.current_scene = c.ret,
                       !.current_scene_index = scene_index,
                       !.scene_start_time = t]

\* switch_to_scene leaving scene_start_time as it was
switch_to_scene_keep_start_time(m, scene_index, t, ok) ==
    LET m1 == IF m.current_scene # NoScene
              THEN [m EXCEPT !.trace = Append(m.trace,
                                 Ev("cleanup", m.current_scene.id, m.current_scene.index)),
                             !.current_scene = NoScene]
              ELSE m
        c == create_scene(m1, scene_index, ok)
    IN IF c.m.raised THEN c.m
       ELSE [c.m EXCEPT !.current_scene = c.ret,
                        !.current_scene_index = scene_index]

\* switch_to_scene keeping the instance, after its cleanup(), when the scene
\* to switch to is the current one
switch_to_scene_reusing_instance(m, scene_index, t, ok) ==
    LET m1 == IF m.current_scene # NoScene
              THEN [m EXCEPT !.trace = Append(m.trace,
                                 Ev("cleanup", m.current_scene.id, m.current_scene.index)),
                             !.current_scene = NoScene]
              ELSE m
        c == create_scene(m1, scene_index, ok)
    IN IF m.current_scene # NoScene /\ m.current_scene.index = scene_index
       THEN [m1 EXCEPT !.current_scene = m.current_scene,
                       !.scene_start_time = t]
       ELSE IF c.m.raised THEN c.m
       ELSE [c.m EXCEPT !.current_scene = c.ret,
                        !.current_scene_index = scene_index,
                        !.scene_start_time = t]

switch_to_scene(m, scene_index, t, ok) ==
    LET m1 == IF m.current_scene # NoScene
              THEN [m EXCEPT !.trace = Append(m.trace,
                                 Ev("cleanup", m.current_scene.id, m.current_scene.index)),
                             !.current_scene = NoScene]
              ELSE m
        c == create_scene(m1, scene_index, ok)
    IN IF c.m.raised THEN c.m
       ELSE [c.m EXCEPT !.current_scene = c.ret,
                        !.current_scene_index = scene_index,
                        !.scene_start_time = t]

\* the registry indices (0-based, as in Python) from position i on whose
\* preference is active in mode
RECURSIVE active_from(_, _)
active_from(i, mode) ==
    IF i > Len(scene_classes) THEN << >>
    ELSE LET rest == active_from(i + 1, mode)
         IN IF is_scene_active_in_mode(scene_classes[i].preference, mode)
            THEN << i - 1 >> \o rest
            ELSE rest

\* a list back to front
RECURSIVE reversed(_)
reversed(seq) ==
    IF seq = << >> THEN << >> ELSE Append(reversed(Tail(seq)), Head(seq))

\* get_active_scene_indices inserting each index at the front of the list
get_active_scene_indices_reversed(h) ==
    reversed(active_from(1, get_current_mode(h, MODE_SCHEDULE)))

\* get_active_scene_indices, the clock reading hour h
get_active_scene_indices(h) ==
    active_from(1, get_current_mode(h, MODE_SCHEDULE))

\* should_check_mode reporting a change of mode without storing the mode
should_check_mode_keeping_mode(m, h) ==
    LET mode == get_current_mode(h, MODE_SCHEDULE)
    IN IF m.current_mode # mode
       THEN [m |-> m, ret |-> TRUE]
       ELSE [m |-> m, ret |-> FALSE]

\* should_check_mode, the clock reading hour h
should_check_mode(m, h) ==
    LET mode == get_current_mode(h, MODE_SCHEDULE)
    IN IF m.current_mode # mode
       THEN [m |-> [m EXCEPT !.current_mode = mode], ret |-> TRUE]
       ELSE [m |-> m, ret |-> FALSE]

\* list.index(x): the 1-based position of x in seq, 0 for ValueError
index_of(seq, x) ==
    IF \E p \in 1..Len(seq) : seq[p] = x
    THEN CHOOSE p \in 1..Len(seq) : seq[p] = x /\ \A q \in 1..(p - 1) : seq[q] # x
    ELSE 0

\* switch_to_next_scene_scheduled stepping through the whole registry, as
\* switch_to_next_scene does, in sequential selection
switch_to_next_scene_unscheduled(m, h, t, rnd, ok) ==
    LET active_indices == get_active_scene_indices(h)
        available_indices ==
            SelectSeq(active_indices, LAMBDA i : i # m.current_scene_index)
        next_index ==
            IF SCENE_SELECTION = "random"
            THEN IF Len(active_indices) > 1
                 THEN IF available_indices # << >>
                      THEN available_indices[(rnd % Len(available_indices)) + 1]
                      ELSE active_indices[(rnd % Len(active_indices)) + 1]
                 ELSE active_indices[1]
            ELSE (m.current_scene_index + 1) % Len(scene_classes)
    IN IF active_indices = << >> THEN m
       ELSE switch_to_scene(m, next_index, t, ok)

\* switch_to_next_scene_scheduled choosing at random among all active scenes,
\* the current one included
switch_to_next_scene_scheduled_may_repeat(m, h, t, rnd, ok) ==
    LET active_indices == get_active_scene_indices(h)
        current_pos == index_of(active_indices, m.current_scene_index)
        next_index ==
            IF SCENE_SELECTION = "random"
            THEN IF Len(active_indices) > 1
                 THEN active_indices[(rnd % Len(active_indices)) + 1]
                 ELSE active_indices[1]
            ELSE IF current_pos # 0
                 THEN active_indices[(current_pos % Len(active_indices)) + 1]
                 ELSE active_indices[1]
    IN IF active_indices = << >> THEN m
       ELSE switch_to_scene(m, next_index, t, ok)

\* switch_to_next_scene_scheduled, the clock reading hour h, time.time()
\* returning t and randint(0, n - 1) returning rnd % n
switch_to_next_scene_scheduled(m, h, t, rnd, ok) ==
    LET active_indices == get_active_scene_indices(h)
        available_indices ==
            SelectSeq(active_indices, LAMBDA i : i # m.current_scene_index)
        current_pos == index_of(active_indices, m.current_scene_index)
        next_index ==
            IF SCENE_SELECTION = "random"
            THEN IF Len(active_indices) > 1
                 THEN IF available_indices # << >>
                      THEN available_indices[(rnd % Len(available_indices)) + 1]
                      ELSE active_indices[(rnd % Len(active_indices)) + 1]
                 ELSE active_indices[1]
            ELSE IF current_pos # 0
                 THEN active_indices[(current_pos % Len(active_indices)) + 1]
                 ELSE active_indices[1]
    IN IF active_indices = << >> THEN m
       ELSE switch_to_scene(m, next_index, t, ok)

\* update without the immediate switch on a mode change
update_without_forced_switch(m, h, t, rnd, ok) ==
    LET s == should_check_mode(m, h.check)
        m1 == IF s.ret
              THEN LET active_indices == get_active_scene_indices(h.active)
                       mc == [s.m EXCEPT !.changed = TRUE]
                   IN IF active_indices # << >>
                         /\ index_of(active_indices, mc.current_scene_index) = 0
                      THEN [mc EXCEPT !.forced = TRUE]
                      ELSE mc
              ELSE s.m
        m2 == IF t - m1.scene_start_time >= scene_duration
              THEN switch_to_next_scene_scheduled(
                       [m1 EXCEPT !.timed = TRUE], h.timed, t, rnd, ok)
              ELSE m1
    IN IF m1.raised \/ m1.current_mode = "off" THEN m1
       ELSE IF m2.raised THEN m2
       ELSE IF m2.current_scene # NoScene
            THEN [m2 EXCEPT !.trace = Append(m2.trace,
                     Ev("update", m2.current_scene.id, m2.current_scene.index))]
            ELSE m2

\* update with a scene timer that does not count the time spent in off mode
update_frozen_timer(m, h, t, rnd, ok) ==
    LET s == should_check_mode(m, h.check)
        m1 == IF s.ret
              THEN LET active_indices == get_active_scene_indices(h.active)
                       mc == [s.m EXCEPT !.changed = TRUE]
                   IN IF active_indices # << >>
                         /\ index_of(active_indices, mc.current_scene_index) = 0
                      THEN switch_to_next_scene_scheduled(
                               [mc EXCEPT !.forced = TRUE], h.forced, t, rnd, ok)
                      ELSE mc
              ELSE s.m
        m2 == IF t - m1.scene_start_time - off_time >= scene_duration
              THEN switch_to_next_scene_scheduled(
                       [m1 EXCEPT !.timed = TRUE], h.timed, t, rnd, ok)
              ELSE m1
    IN IF m1.raised \/ m1.current_mode = "off" THEN m1
       ELSE IF m2.raised THEN m2
       ELSE IF m2.current_scene # NoScene
            THEN [m2 EXCEPT !.trace = Append(m2.trace,
                     Ev("update", m2.current_scene.id, m2.current_scene.index))]
            ELSE m2

\* update switching only once more than scene_duration has passed
update_strictly_longer(m, h, t, rnd, ok) ==
    LET s == should_check_mode(m, h.check)
        m1 == IF s.ret
              THEN LET active_indices == get_active_scene_indices(h.active)
                       mc == [s.m EXCEPT !.changed = TRUE]
                   IN IF active_indices # << >>
                         /\ index_of(active_indices, mc.current_scene_index) = 0
                      THEN switch_to_next_scene_scheduled(
                               [mc EXCEPT !.forced = TRUE], h.forced, t, rnd, ok)
                      ELSE mc
              ELSE s.m
        m2 == IF t - m1.scene_start_time > scene_duration
              THEN switch_to_next_scene_scheduled(
                       [m1 EXCEPT !.timed = TRUE], h.timed, t, rnd, ok)
              ELSE m1
    IN IF m1.raised \/ m1.current_mode = "off" THEN m1
       ELSE IF m2.raised THEN m2
       ELSE IF m2.current_scene # NoScene
            THEN [m2 EXCEPT !.trace = Append(m2.trace,
                     Ev("update", m2.current_scene.id, m2.current_scene.index))]
            ELSE m2

\* update returning after a timed switch, the new scene not updated
update_returning_after_switch(m, h, t, rnd, ok) ==
    LET s == should_check_mode(m, h.check)
        m1 == IF s.ret
              THEN LET active_indices == get_active_scene_indices(h.active)
                       mc == [s.m EXCEPT !.changed = TRUE]
                   IN IF active_indices # << >>
                         /\ index_of(active_indices, mc.current_scene_index) = 0
                      THEN switch_to_next_scene_scheduled(
                               [mc EXCEPT !.forced = TRUE], h.forced, t, rnd, ok)
                      ELSE mc
              ELSE s.m
        m2 == IF t - m1.scene_start_time >= scene_duration
              THEN switch_to_next_scene_scheduled(
                       [m1 EXCEPT !.timed = TRUE], h.timed, t, rnd, ok)
              ELSE m1
    IN IF m1.raised \/ m1.current_mode = "off" THEN m1
       ELSE IF m2.raised THEN m2
       ELSE IF m2.current_scene # NoScene /\ ~m2.timed
            THEN [m2 EXCEPT !.trace = Append(m2.trace,
                     Ev("update", m2.current_scene.id, m2.current_scene.index))]
            ELSE m2

\* update switching on every tick, whatever time has passed
update_switching_every_tick(m, h, t, rnd, ok) ==
    LET s == should_check_mode(m, h.check)
        m1 == IF s.ret
              THEN LET active_indices == get_active_scene_indices(h.active)
                       mc == [s.m EXCEPT !.changed = TRUE]
                   IN IF active_indices # << >>
                         /\ index_of(active_indices, mc.current_scene_index) = 0
                      THEN switch_to_next_scene_scheduled(
                               [mc EXCEPT !.forced = TRUE], h.forced, t, rnd, ok)
                      ELSE mc
              ELSE s.m
        m2 == IF t - m1.scene_start_time >= 0
              THEN switch_to_next_scene_scheduled(
                       [m1 EXCEPT !.timed = TRUE], h.timed, t, rnd, ok)
              ELSE m1
    IN IF m1.raised \/ m1.current_mode = "off" THEN m1
       ELSE IF m2.raised THEN m2
       ELSE IF m2.current_scene # NoScene
            THEN [m2 EXCEPT !.trace = Append(m2.trace,
                     Ev("update", m2.current_scene.id, m2.current_scene.index))]
            ELSE m2

\* update loading the live scene's image again when the mode changes
update_resolving_again(m, h, t, rnd, ok) ==
    LET s == should_check_mode(m, h.check)
        m1 == IF s.ret
              THEN LET active_indices == get_active_scene_indices(h.active)
                       mc == [s.m EXCEPT !.changed = TRUE]
                   IN IF active_indices # << >>
                         /\ index_of(active_indices, mc.current_scene_index) = 0
                      THEN switch_to_next_scene_scheduled(
                               [mc EXCEPT !.forced = TRUE], h.forced, t, rnd, ok)
                      ELSE IF mc.current_scene.resolved_image_path # None
                           THEN [mc EXCEPT !.current_scene.resolved_image_path =
                                    resolve_image_path_for_mode(
                                        scene_classes[mc.current_scene.index + 1].args[1],
                                        mc.current_mode)]
                           ELSE mc
              ELSE s.m
        m2 == IF t - m1.scene_start_time >= scene_duration
              THEN switch_to_next_scene_scheduled(
                       [m1 EXCEPT !.timed = TRUE], h.timed, t, rnd, ok)
              ELSE m1
    IN IF m1.raised \/ m1.current_mode = "off" THEN m1
       ELSE IF m2.raised THEN m2
       ELSE IF m2.current_scene # NoScene
            THEN [m2 EXCEPT !.trace = Append(m2.trace,
                     Ev("update", m2.current_scene.id, m2.current_scene.index))]
            ELSE m2

\* SceneManager.update; h gives the hour each clock read returns
update(m, h, t, rnd, ok) ==
    LET s == should_check_mode(m, h.check)
        m1 == IF s.ret
              THEN LET active_indices == get_active_scene_indices(h.active)
                       mc == [s.m EXCEPT !.changed = TRUE]
                   IN IF active_indices # << >>
                         /\ index_of(active_indices, mc.current_scene_index) = 0
                      THEN switch_to_next_scene_scheduled(
                               [mc EXCEPT !.forced = TRUE], h.forced, t, rnd, ok)
                      ELSE mc
              ELSE s.m
        m2 == IF t - m1.scene_start_time >= scene_duration
              THEN switch_to_next_scene_scheduled(
                       [m1 EXCEPT !.timed = TRUE], h.timed, t, rnd, ok)
              ELSE m1
    IN IF m1.raised \/ m1.current_mode = "off" THEN m1
       ELSE IF m2.raised THEN m2
       ELSE IF m2.current_scene # NoScene
            THEN [m2 EXCEPT !.trace = Append(m2.trace,
                     Ev("update", m2.current_scene.id, m2.current_scene.index))]
            ELSE m2

\* SceneManager.render
render(m) ==
    IF m.current_scene # NoScene
    THEN [m EXCEPT !.trace = Append(m.trace,
             Ev("render", m.current_scene.id, m.current_scene.index))]
    ELSE m

\* ------------------------------------------------ start-up and host loop
\* the registration loop leaving at the first tuple it does not accept
RECURSIVE add_scene_classes_stop_at_malformed(_, _)
add_scene_classes_stop_at_malformed(scenes, i) ==
    IF i > Len(scenes) THEN << >>
    ELSE LET scene_config == scenes[i]
             preference == IF scene_config.len = 4 THEN scene_config.pref ELSE None
         IN IF scene_config.len \notin {2, 3, 4}
               \/ scene_config.name \notin scene_classes_by_name
            THEN << >>
            ELSE << [ scene_class |-> scene_config.name,
                      args |-> scene_config.args,
                      kwargs |-> IF scene_config.len = 2 THEN << >>
                                 ELSE scene_config.kwargs,
                      preference |-> preference ] >>
                 \o add_scene_classes_stop_at_malformed(scenes, i + 1)

\* the loop of create_scene_manager_from_config over config.SCENES from
\* position i: a tuple of a wrong length or of an unknown class is skipped
RECURSIVE add_scene_classes(_, _)
add_scene_classes(scenes, i) ==
    IF i > Len(scenes) THEN << >>
    ELSE LET scene_config == scenes[i]
             preference == IF scene_config.len = 4 THEN scene_config.pref ELSE None
             rest == add_scene_classes(scenes, i + 1)
         IN IF scene_config.len \notin {2, 3, 4}
               \/ scene_config.name \notin scene_classes_by_name
            THEN rest
            ELSE << [ scene_class |-> scene_config.name,
                      args |-> scene_config.args,
                      kwargs |-> IF scene_config.len = 2 THEN << >>
                                 ELSE scene_config.kwargs,
                      preference |-> preference ] >>
                 \o rest

\* the hour after h on the RTC
next_hour(h) == (h + 1) % 24

\* the hour the j-th clock read of a handler returns when the RTC hour
\* rolls over just before the k-th read (k = 0: it does not roll over)
read(j, k) == IF k # 0 /\ j >= k THEN next_hour(rtc_hour) ELSE rtc_hour

\* the clock reads of one loop iteration, in program order: main.py,
\* should_check_mode, get_active_scene_indices in update, and
\* get_active_scene_indices in either call of switch_to_next_scene_scheduled
reads(k) ==
    [ main |-> read(1, k), check |-> read(2, k), active |-> read(3, k),
      forced |-> read(4, k), timed |-> read(5, k) ]

\* what a handler leaves in "last"
record(act, k, m, display_mode) ==
    [ act |-> act, k |-> k, hour |-> rtc_hour, t |-> now,
      display_mode |-> display_mode,
      old_scene |-> current_scene,
      old_index |-> current_scene_index,
      old_start |-> scene_start_time,
      old_mode |-> current_mode,
      old_display_mode |-> current_display_mode,
      old_off_time |-> off_time,
      raised |-> m.raised, changed |-> m.changed,
      forced |-> m.forced, timed |-> m.timed ]

\* the SceneManager fields and the history after a handler that ended in m
Store(m) ==
    /\ current_scene' = m.current_scene
    /\ current_scene_index' = m.current_scene_index
    /\ scene_start_time' = m.scene_start_time
    /\ current_mode' = m.current_mode
    /\ scene_classes' = m.scene_classes
    /\ next_id' = m.next_id
    /\ trace' = m.trace
    /\ pc' = IF m.raised THEN "crashed" ELSE "running"
    /\ off_time' = IF \E p \in 1..Len(m.trace) : m.trace[p].op = "ctor_end"
                   THEN 0 ELSE off_time

\* the loop body without the off-mode "continue"
main_loop_without_off_skip(m, h, t, rnd, ok) ==
    LET u == update(m, h, t, rnd, ok)
    IN IF u.raised THEN u ELSE render(u)

\* the loop body cleaning the scene up when the display is off
main_loop_cleanup_in_off(m, h, t, rnd, ok) ==
    IF get_current_mode(h.main, MODE_SCHEDULE) = "off"
    THEN IF m.current_scene # NoScene
         THEN [m EXCEPT !.trace = Append(m.trace,
                            Ev("cleanup", m.current_scene.id, m.current_scene.index)),
                        !.current_scene = NoScene]
         ELSE m
    ELSE LET u == update(m, h, t, rnd, ok)
         IN IF u.raised THEN u ELSE render(u)

\* the body of the "while True" loop of main.py: nothing is updated or
\* rendered in off mode; an exception of update() ends the program
main_loop(m, h, t, rnd, ok) ==
    IF get_current_mode(h.main, MODE_SCHEDULE) = "off" THEN m
    ELSE LET u == update(m, h, t, rnd, ok)
         IN IF u.raised THEN u ELSE render(u)

\* SceneManager() and the add_scene_class calls of
\* create_scene_manager_from_config, for a non-empty config.SCENES
Init ==
    /\ MODE_SCHEDULE \in Schedules
    /\ SCENES \in SceneConfigs
    /\ SCENE_SELECTION \in {"sequential", "random"}
    /\ rtc_hour \in StartHours
    /\ now = 0
    /\ hour_fresh = FALSE
    /\ hour_changes = 0
    /\ pc = "boot"
    /\ scene_classes = add_scene_classes(SCENES, 1)
    /\ current_scene = NoScene
    /\ current_scene_index = 0
    /\ scene_start_time = 0
    /\ scene_duration = SCENE_DURATION
    /\ files = {}
    /\ current_mode = get_current_mode(rtc_hour, MODE_SCHEDULE)
    /\ next_id = 1
    /\ current_display_mode = None
    /\ off_time = 0
    /\ trace = << >>
    /\ last = [act |-> "init"]
    /\ frame = NoFrame
    /\ game = None

\* the end of create_scene_manager_from_config: with the scenes of
\* config.SCENES added, the first scene is chosen
Startup ==
    /\ pc = "boot"
    /\ \E k \in 0..1, rnd \in 0..(MaxChoice - 1), ok \in BOOLEAN :
         /\ \E m \in { IF scene_classes # << >> /\ current_scene = NoScene
                       THEN switch_to_next_scene_scheduled(
                                manager, read(1, k), now, rnd, ok)
                       ELSE manager } :
               /\ Store(m)
               /\ last' = record("startup", k, m, current_display_mode)
         /\ rtc_hour' = read(1, k)
         /\ hour_fresh' = (k # 0)
         /\ hour_changes' = IF k # 0 THEN hour_changes + 1 ELSE hour_changes
    /\ UNCHANGED << game, frame, MODE_SCHEDULE, SCENES, SCENE_SELECTION, scene_duration, files, now,
                    current_display_mode >>

\* one iteration of the main loop
MainLoop ==
    /\ pc = "running"
    /\ next_id <= MaxInstances
    /\ \E k \in 0..5, rnd \in 0..(MaxChoice - 1), ok \in BOOLEAN :
         /\ k # 0 => ~hour_fresh /\ hour_changes < MaxHourChanges
         /\ \E m \in { main_loop(manager, reads(k), now, rnd, ok) } :
               LET display_mode == get_current_mode(read(1, k), MODE_SCHEDULE)
               IN /\ Store(m)
                  /\ current_display_mode' = display_mode
                  /\ last' = record("loop", k, m, display_mode)
         /\ rtc_hour' = read(5, k)
         /\ hour_fresh' = (k # 0)
         /\ hour_changes' = IF k # 0 THEN hour_changes + 1 ELSE hour_changes
    /\ UNCHANGED << game, frame, MODE_SCHEDULE, SCENES, SCENE_SELECTION, scene_duration, files, now >>

\* time.sleep(config.SCROLL_DELAY) and the drawing: time.time() advances
AdvanceTime ==
    /\ pc = "running"
    /\ \E d \in TimeSteps :
         /\ now + d <= MaxTime
         /\ now' = now + d
         /\ off_time' = IF current_display_mode = "off" THEN off_time + d ELSE off_time
    /\ trace' = << >>
    /\ last' = [act |-> "time"]
    /\ UNCHANGED << game, frame, MODE_SCHEDULE, SCENES, SCENE_SELECTION, scene_duration, files, rtc_hour, hour_fresh,
                    hour_changes, pc, scene_classes, current_scene, current_scene_index,
                    scene_start_time, current_mode, next_id, current_display_mode >>

\* the RTC rolls over to the next hour between two loop iterations; an
\* iteration lasts milliseconds, so two iterations never see two roll-overs
AdvanceHour ==
    /\ pc = "running"
    /\ ~hour_fresh
    /\ hour_changes < MaxHourChanges
    /\ rtc_hour' = next_hour(rtc_hour)
    /\ hour_fresh' = TRUE
    /\ hour_changes' = hour_changes + 1
    /\ trace' = << >>
    /\ last' = [act |-> "hour"]
    /\ UNCHANGED << game, frame, MODE_SCHEDULE, SCENES, SCENE_SELECTION, scene_duration, files, now, pc, scene_classes,
                    current_scene, current_scene_index, scene_start_time,
                    current_mode, next_id, current_display_mode, off_time >>

Next == Startup \/ MainLoop \/ AdvanceTime \/ AdvanceHour

Spec == Init /\ [][Next]_vars

\* ------------------------------------------------- the end-to-end scenario
\* config.SCENE_DURATION of the scenario, seconds
ScenarioDuration == 30

\* the scenario's configuration: registry [A(night), B(any), C(day)],
\* schedule {9: normal, 18: dark}, sequential selection; the program is
\* started at hour 10, or at hour 17 to see the mode change of hour 18
ScenarioInit ==
    /\ MODE_SCHEDULE = ScheduleDayNight
    /\ SCENES = ScenesNightAnyDay
    /\ SCENE_SELECTION = "sequential"
    /\ rtc_hour \in {10, 17}
    /\ now = 0
    /\ hour_fresh = FALSE
    /\ hour_changes = 0
    /\ pc = "boot"
    /\ scene_classes = add_scene_classes(SCENES, 1)
    /\ current_scene = NoScene
    /\ current_scene_index = 0
    /\ scene_start_time = 0
    /\ scene_duration = ScenarioDuration
    /\ files = {}
    /\ current_mode = get_current_mode(rtc_hour, MODE_SCHEDULE)
    /\ next_id = 1
    /\ current_display_mode = None
    /\ off_time = 0
    /\ trace = << >>
    /\ last = [act |-> "init"]
    /\ frame = NoFrame
    /\ game = None

\* the RTC is found at hour 19 by the next iteration: rtc.datetime() is an
\* input of the program
ClockTo19 ==
    /\ pc = "running"
    /\ rtc_hour \in 9..17
    /\ rtc_hour' = 19
    /\ hour_fresh' = TRUE
    /\ trace' = << >>
    /\ last' = [act |-> "hour"]
    /\ UNCHANGED << game, frame, MODE_SCHEDULE, SCENES, SCENE_SELECTION, scene_duration, files, now, pc,
                    hour_changes, scene_classes, current_scene, current_scene_index,
                    scene_start_time, current_mode, next_id, current_display_mode,
                    off_time >>

ScenarioNext == Startup \/ MainLoop \/ AdvanceTime \/ AdvanceHour \/ ClockTo19

ScenarioSpec == ScenarioInit /\ [][ScenarioNext]_vars

\* ------------------------------------------------- registering config.SCENES
\* tuples of config.SCENES: of an unknown class, too short, too long, and of
\* each accepted length
SceneTuples ==
    { Entry("TetrisScene", 3, None),
      Entry("StaticImageScene", 1, None),
      Entry("CubeScene", 5, "day"),
      Entry("CubeScene", 2, None),
      Entry("ScrollingImageScene", 3, None),
      Entry("StaticImageScene", 4, "day") }

\* every config.SCENES of up to MaxScenes tuples
AllSceneConfigs == UNION { [1..n -> SceneTuples] : n \in 0..MaxScenes }

\* the program before create_scene_manager_from_config: nothing registered
RegistryInit ==
    /\ MODE_SCHEDULE = ScheduleConfig
    /\ SCENES \in AllSceneConfigs
    /\ SCENE_SELECTION = "sequential"
    /\ rtc_hour = 10
    /\ now = 0
    /\ hour_fresh = FALSE
    /\ hour_changes = 0
    /\ pc = "config"
    /\ scene_classes = << >>
    /\ current_scene = NoScene
    /\ current_scene_index = 0
    /\ scene_start_time = 0
    /\ scene_duration = SCENE_DURATION
    /\ files = {}
    /\ current_mode = get_current_mode(rtc_hour, MODE_SCHEDULE)
    /\ next_id = 1
    /\ current_display_mode = None
    /\ off_time = 0
    /\ trace = << >>
    /\ last = [act |-> "init"]
    /\ frame = NoFrame
    /\ game = None

\* the loop of create_scene_manager_from_config over config.SCENES
AddSceneClasses ==
    /\ pc = "config"
    /\ scene_classes' = add_scene_classes(SCENES, 1)
    /\ pc' = "boot"
    /\ trace' = << >>
    /\ last' = [act |-> "register"]
    /\ UNCHANGED << game, frame, MODE_SCHEDULE, SCENES, SCENE_SELECTION, scene_duration, rtc_hour,
                    now, hour_fresh, hour_changes, files, current_scene,
                    current_scene_index, scene_start_time, current_mode, next_id,
                    current_display_mode, off_time >>

RegistryNext == AddSceneClasses \/ Startup

RegistrySpec == RegistryInit /\ [][RegistryNext]_vars

\* ------------------------------------------ image scenes across mode changes
\* the "_night" file of DefaultImage
DefaultImageNight == << "a", "_night", ".", "a" >>

\* four scenes for every mode, two of them image scenes, with or without a
\* "_night" file, started before a change between normal and dark mode
AssetInit ==
    /\ MODE_SCHEDULE \in {ScheduleDayNight, ScheduleAdjacent}
    /\ SCENES = ScenesFourAny
    /\ SCENE_SELECTION \in {"sequential", "random"}
    /\ rtc_hour \in {8, 9, 17}
    /\ now = 0
    /\ hour_fresh = FALSE
    /\ hour_changes = 0
    /\ pc = "boot"
    /\ scene_classes = add_scene_classes(SCENES, 1)
    /\ current_scene = NoScene
    /\ current_scene_index = 0
    /\ scene_start_time = 0
    /\ scene_duration = SCENE_DURATION
    /\ files \in {{}, {DefaultImageNight}}
    /\ current_mode = get_current_mode(rtc_hour, MODE_SCHEDULE)
    /\ next_id = 1
    /\ current_display_mode = None
    /\ off_time = 0
    /\ trace = << >>
    /\ last = [act |-> "init"]
    /\ frame = NoFrame
    /\ game = None

\* the "_night" file is written to or removed from the file system while the
\* program runs
FilesChange ==
    /\ pc = "running"
    /\ files' = IF files = {} THEN {DefaultImageNight} ELSE {}
    /\ trace' = << >>
    /\ last' = [act |-> "files"]
    /\ UNCHANGED << game, frame, MODE_SCHEDULE, SCENES, SCENE_SELECTION, scene_duration, rtc_hour,
                    now, hour_fresh, hour_changes, pc, scene_classes, current_scene,
                    current_scene_index, scene_start_time, current_mode, next_id,
                    current_display_mode, off_time >>

AssetNext == Startup \/ MainLoop \/ AdvanceTime \/ AdvanceHour \/ FilesChange

AssetSpec == AssetInit /\ [][AssetNext]_vars

\* --------------------------------------------- an image scene's constructor
\* the parts an image path is made of
PathParts == {"a", ".", "/"}

\* the image paths of up to MaxPathLen parts: they name a file, so they do
\* not end in "/"
Paths ==
    { path \in UNION { [1..n -> PathParts] : n \in 1..MaxPathLen } :
          path[Len(path)] # "/" }

\* the paths that are image_path with "_night" put in at some place
WithNight(image_path) ==
    { SubSeq(image_path, 1, i) \o << "_night" >>
          \o SubSeq(image_path, i + 1, Len(image_path)) : i \in 0..Len(image_path) }

\* a registry of one image scene with any image path, a file system with at
\* most one "_night" file next to it, and a SceneManager in any mode
PathInit ==
    /\ MODE_SCHEDULE = ScheduleConfig
    /\ SCENES \in { << EntryWith("StaticImageScene", 4, None, image_path) >> :
                       image_path \in Paths }
    /\ SCENE_SELECTION = "sequential"
    /\ rtc_hour = 10
    /\ now = 0
    /\ hour_fresh = FALSE
    /\ hour_changes = 0
    /\ pc = "running"
    /\ scene_classes = add_scene_classes(SCENES, 1)
    /\ current_scene = NoScene
    /\ current_scene_index = 0
    /\ scene_start_time = 0
    /\ scene_duration = SCENE_DURATION
    /\ files \in {{}} \cup { {f} : f \in WithNight(SCENES[1].args[1]) }
    /\ current_mode \in Modes
    /\ next_id = 1
    /\ current_display_mode = None
    /\ off_time = 0
    /\ trace = << >>
    /\ last = [act |-> "init"]
    /\ frame = NoFrame
    /\ game = None

\* a call of create_scene(0): StaticImageScene.__init__ with the manager's
\* mode
CreateScene ==
    /\ pc = "running"
    /\ \E ok \in BOOLEAN :
         \E c \in { create_scene(manager, 0, ok) } :
            /\ current_scene' = c.ret
            /\ next_id' = c.m.next_id
            /\ trace' = c.m.trace
            /\ pc' = IF c.m.raised THEN "crashed" ELSE "created"
            /\ last' = [act |-> "create", raised |-> c.m.raised]
    /\ UNCHANGED << game, frame, MODE_SCHEDULE, SCENES, SCENE_SELECTION, scene_duration, files,
                    rtc_hour, now, hour_fresh, hour_changes, scene_classes,
                    current_scene_index, scene_start_time, current_mode,
                    current_display_mode, off_time >>

PathNext == CreateScene

PathSpec == PathInit /\ [][PathNext]_vars

\* ---------------------------------------------- get_current_mode on its own
\* the hours a mode schedule of ModeSpec may have an entry at
ScheduleHours == {0, 9, 17, 23}

\* every mode schedule with keys in ScheduleHours, the empty dict included
AllSchedules == UNION { [S -> Modes] : S \in SUBSET ScheduleHours }

\* the schedule {9: "normal", 17: "dark", 23: "off"}
Schedule9_17_23 == (9 :> "normal") @@ (17 :> "dark") @@ (23 :> "off")

\* any schedule, any hour on the RTC, and a SceneManager not yet constructed
ModeInit ==
    /\ MODE_SCHEDULE \in AllSchedules
    /\ SCENES = ScenesNightAnyDay
    /\ SCENE_SELECTION = "sequential"
    /\ rtc_hour \in Hours
    /\ now = 0
    /\ hour_fresh = FALSE
    /\ hour_changes = 0
    /\ pc = "boot"
    /\ scene_classes = << >>
    /\ current_scene = NoScene
    /\ current_scene_index = 0
    /\ scene_start_time = 0
    /\ scene_duration = SCENE_DURATION
    /\ files = {}
    /\ current_mode = None
    /\ next_id = 1
    /\ current_display_mode = None
    /\ off_time = 0
    /\ trace = << >>
    /\ last = [act |-> "init"]
    /\ frame = NoFrame
    /\ game = None

\* SceneManager.__init__: self.current_mode = get_current_mode(rtc, schedule)
GetCurrentMode ==
    /\ pc = "boot"
    /\ current_mode' = get_current_mode(rtc_hour, MODE_SCHEDULE)
    /\ pc' = "mode"
    /\ last' = [act |-> "get_current_mode"]
    /\ UNCHANGED << game, frame, MODE_SCHEDULE, SCENES, SCENE_SELECTION, scene_duration, files, rtc_hour,
                    now, hour_fresh, hour_changes, scene_classes, current_scene,
                    current_scene_index, scene_start_time, next_id,
                    current_display_mode, off_time, trace >>

ModeNext == GetCurrentMode

ModeSpec == ModeInit /\ [][ModeNext]_vars

\* ------------------------------------ the eligibility filter and the policy
\* the registries the selection is run on
SelectSceneConfigs == {ScenesNightAnyDay, ScenesOneValid, ScenesDayOnly, ScenesFourAny}

\* the hours the selection is run at: each schedule of Schedules is in each
\* of its modes at one of them
SelectHours == {8, 9, 10, 22, 23}

\* a SceneManager with its scenes registered, at any of the hours
SelectInit ==
    /\ MODE_SCHEDULE \in Schedules
    /\ SCENES \in SelectSceneConfigs
    /\ SCENE_SELECTION \in {"sequential", "random"}
    /\ rtc_hour \in SelectHours
    /\ now = 0
    /\ hour_fresh = FALSE
    /\ hour_changes = 0
    /\ pc = "running"
    /\ scene_classes = add_scene_classes(SCENES, 1)
    /\ current_scene = NoScene
    /\ current_scene_index = 0
    /\ scene_start_time = 0
    /\ scene_duration = SCENE_DURATION
    /\ files = {}
    /\ current_mode = get_current_mode(rtc_hour, MODE_SCHEDULE)
    /\ next_id = 1
    /\ current_display_mode = None
    /\ off_time = 0
    /\ trace = << >>
    /\ last = [act |-> "init"]
    /\ frame = NoFrame
    /\ game = None

\* a call of get_active_scene_indices
GetActiveSceneIndices ==
    /\ pc = "running"
    /\ last' = [ act |-> "active",
                 mode |-> get_current_mode(rtc_hour, MODE_SCHEDULE),
                 active_indices |-> get_active_scene_indices(rtc_hour) ]
    /\ trace' = << >>
    /\ UNCHANGED << game, frame, MODE_SCHEDULE, SCENES, SCENE_SELECTION, scene_duration, files, rtc_hour,
                    now, hour_fresh, hour_changes, pc, scene_classes, current_scene,
                    current_scene_index, scene_start_time, current_mode, next_id,
                    current_display_mode, off_time >>

\* a call of switch_to_next_scene_scheduled; randint may return any of its
\* values
SwitchToNextSceneScheduled ==
    /\ pc = "running"
    /\ next_id <= MaxSwaps
    /\ \E rnd \in 0..(Len(scene_classes) - 1), ok \in BOOLEAN :
         \E m \in { switch_to_next_scene_scheduled(manager, rtc_hour, now, rnd, ok) } :
            /\ Store(m)
            /\ last' = [ act |-> "select",
                         old_index |-> current_scene_index,
                         old_scene |-> current_scene,
                         raised |-> m.raised,
                         active_indices |-> get_active_scene_indices(rtc_hour) ]
    /\ UNCHANGED << game, frame, MODE_SCHEDULE, SCENES, SCENE_SELECTION, scene_duration, files,
                    rtc_hour, now, hour_fresh, hour_changes, current_display_mode >>

\* the RTC moves on to another hour between two calls
SetClock ==
    /\ pc = "running"
    /\ \E h \in SelectHours \ {rtc_hour} : rtc_hour' = h
    /\ trace' = << >>
    /\ last' = [act |-> "hour"]
    /\ UNCHANGED << game, frame, MODE_SCHEDULE, SCENES, SCENE_SELECTION, scene_duration, files, now,
                    hour_fresh, hour_changes, pc, scene_classes, current_scene,
                    current_scene_index, scene_start_time, current_mode, next_id,
                    current_display_mode, off_time >>

SelectNext == GetActiveSceneIndices \/ SwitchToNextSceneScheduled \/ SetClock

SelectSpec == SelectInit /\ [][SelectNext]_vars

\* ------------------------------------------------ preferences of any value
\* the fourth element of a tuple of config.SCENES: the three values the code
\* knows and values it does not know
Preferences == {None, "day", "night", "evening", "Day", ""}

\* a registry of two scenes with any two preferences, at any of the hours
PreferenceInit ==
    /\ MODE_SCHEDULE \in Schedules
    /\ SCENES \in { << Entry("CubeScene", 4, p), Entry("StaticImageScene", 4, q) >> :
                       p \in Preferences, q \in Preferences }
    /\ SCENE_SELECTION = "sequential"
    /\ rtc_hour \in SelectHours
    /\ now = 0
    /\ hour_fresh = FALSE
    /\ hour_changes = 0
    /\ pc = "running"
    /\ scene_classes = add_scene_classes(SCENES, 1)
    /\ current_scene = NoScene
    /\ current_scene_index = 0
    /\ scene_start_time = 0
    /\ scene_duration = SCENE_DURATION
    /\ files = {}
    /\ current_mode = get_current_mode(rtc_hour, MODE_SCHEDULE)
    /\ next_id = 1
    /\ current_display_mode = None
    /\ off_time = 0
    /\ trace = << >>
    /\ last = [act |-> "init"]
    /\ frame = NoFrame
    /\ game = None

PreferenceNext == GetActiveSceneIndices \/ SetClock

PreferenceSpec == PreferenceInit /\ [][PreferenceNext]_vars

\* --------------------------------------- update() and render() step by step
\* The calls of one loop iteration run statement by statement: pc is the
\* statement to run next, frame.stack the statements to return to, and the
\* other fields of frame the locals of the calls in progress.

\* what the steps of a call leave alone
TickUnchanged ==
    UNCHANGED << game, MODE_SCHEDULE, SCENES, SCENE_SELECTION, scene_duration, files,
                 hour_fresh, hour_changes, scene_classes, current_display_mode,
                 off_time, trace, last >>

\* the SceneManager fields a step that only moves on leaves alone
ManagerUnchanged ==
    UNCHANGED << current_scene, current_scene_index, scene_start_time,
                 current_mode, next_id >>

ClockUnchanged == UNCHANGED << rtc_hour, now >>

\* call the function at target, to come back to ret
Call(target, ret) ==
    /\ pc' = target
    /\ frame' = [frame EXCEPT !.stack = << ret >> \o @]

\* return with the locals f
Return(f) ==
    /\ pc' = Head(f.stack)
    /\ frame' = [f EXCEPT !.stack = Tail(@)]

\* a constructed SceneManager, before the first scene is chosen
TickInit ==
    /\ MODE_SCHEDULE \in Schedules
    /\ SCENES \in {ScenesNightAnyDay, ScenesDayOnly, ScenesFourAny}
    /\ SCENE_SELECTION \in {"sequential", "random"}
    /\ rtc_hour \in SelectHours
    /\ now = 0
    /\ hour_fresh = FALSE
    /\ hour_changes = 0
    /\ pc = "startup"
    /\ scene_classes = add_scene_classes(SCENES, 1)
    /\ current_scene = NoScene
    /\ current_scene_index = 0
    /\ scene_start_time = 0
    /\ scene_duration = SCENE_DURATION
    /\ files = {}
    /\ current_mode = get_current_mode(rtc_hour, MODE_SCHEDULE)
    /\ next_id = 1
    /\ current_display_mode = None
    /\ off_time = 0
    /\ trace = << >>
    /\ last = [act |-> "init"]
    /\ frame = NoFrame
    /\ game = None

\* create_scene_manager_from_config: the first switch_to_next_scene_scheduled()
FirstScene ==
    /\ pc = "startup"
    /\ IF scene_classes # << >> /\ current_scene = NoScene
       THEN Call("switch_to_next_scene_scheduled", "idle")
       ELSE pc' = "idle" /\ frame' = frame
    /\ ManagerUnchanged /\ ClockUnchanged /\ TickUnchanged

\* main loop: time passes, the RTC shows some hour, and the iteration calls
\* update() unless the display mode is off
BeginTick ==
    /\ pc = "idle"
    /\ next_id <= MaxInstances
    /\ \E hour \in SelectHours, dt \in {0, SCENE_DURATION \div 2} :
         /\ now + dt <= MaxTime
         /\ rtc_hour' = hour
         /\ now' = now + dt
         /\ pc' = IF get_current_mode(hour, MODE_SCHEDULE) = "off"
                  THEN "idle" ELSE "update"
    /\ frame' = NoFrame
    /\ ManagerUnchanged /\ TickUnchanged

\* update(): if self.should_check_mode()
Update ==
    /\ pc = "update"
    /\ Call("get_current_mode", "should_check_mode")
    /\ ManagerUnchanged /\ ClockUnchanged /\ TickUnchanged

\* get_current_mode up to its for loop
GetCurrentModeEntry ==
    /\ pc = "get_current_mode"
    /\ IF DOMAIN MODE_SCHEDULE = {}
       THEN Return([frame EXCEPT !.mode = "normal"])
       ELSE /\ pc' = "for_hour"
            /\ frame' = [frame EXCEPT !.mode = None, !.h = 1,
                              !.sorted_hours = sorted(DOMAIN MODE_SCHEDULE)]
    /\ ManagerUnchanged /\ ClockUnchanged /\ TickUnchanged

\* get_current_mode: one iteration of "for hour in sorted_hours", or the end
\* of the loop with the wrap-around and the return
ForHour ==
    /\ pc = "for_hour"
    /\ IF frame.h <= Len(frame.sorted_hours)
          /\ rtc_hour >= frame.sorted_hours[frame.h]
       THEN /\ pc' = "for_hour"
            /\ frame' = [frame EXCEPT !.mode = MODE_SCHEDULE[frame.sorted_hours[frame.h]],
                                      !.h = @ + 1]
       ELSE Return([frame EXCEPT !.mode =
                       IF @ = None
                       THEN MODE_SCHEDULE[frame.sorted_hours[Len(frame.sorted_hours)]]
                       ELSE @])
    /\ ManagerUnchanged /\ ClockUnchanged /\ TickUnchanged

\* should_check_mode after get_current_mode, and update()'s branch on it
ShouldCheckMode ==
    /\ pc = "should_check_mode"
    /\ IF current_mode # frame.mode
       THEN /\ current_mode' = frame.mode
            /\ Call("get_active_scene_indices", "mode_changed")
       ELSE /\ current_mode' = current_mode
            /\ pc' = "off_check"
            /\ frame' = frame
    /\ UNCHANGED << current_scene, current_scene_index, scene_start_time, next_id >>
    /\ ClockUnchanged /\ TickUnchanged

\* get_active_scene_indices: mode = get_current_mode(...)
GetActiveEntry ==
    /\ pc = "get_active_scene_indices"
    /\ Call("get_current_mode", "active_indices")
    /\ ManagerUnchanged /\ ClockUnchanged /\ TickUnchanged

\* get_active_scene_indices: active_indices = []
ActiveIndicesEmpty ==
    /\ pc = "active_indices"
    /\ pc' = "for_scene"
    /\ frame' = [frame EXCEPT !.active_indices = << >>, !.i = 0]
    /\ ManagerUnchanged /\ ClockUnchanged /\ TickUnchanged

\* the for loop over the registry staying at a scene that is not active
ForSceneStayingAtInactive ==
    /\ pc = "for_scene"
    /\ IF frame.i < Len(scene_classes)
       THEN /\ pc' = "for_scene"
            /\ frame' =
                 IF is_scene_active_in_mode(scene_classes[frame.i + 1].preference,
                                            frame.mode)
                 THEN [frame EXCEPT !.active_indices = Append(@, frame.i),
                                    !.i = @ + 1]
                 ELSE frame
       ELSE Return(frame)
    /\ ManagerUnchanged /\ ClockUnchanged /\ TickUnchanged

\* get_active_scene_indices: one iteration of "for i, scene_data in
\* enumerate(self.scene_classes)", or the return after the loop
ForScene ==
    /\ pc = "for_scene"
    /\ IF frame.i < Len(scene_classes)
       THEN /\ pc' = "for_scene"
            /\ frame' =
                 IF is_scene_active_in_mode(scene_classes[frame.i + 1].preference,
                                            frame.mode)
                 THEN [frame EXCEPT !.active_indices = Append(@, frame.i),
                                    !.i = @ + 1]
                 ELSE [frame EXCEPT !.i = @ + 1]
       ELSE Return(frame)
    /\ ManagerUnchanged /\ ClockUnchanged /\ TickUnchanged

\* update(): the mode changed; switch if the current scene is not active
ModeChanged ==
    /\ pc = "mode_changed"
    /\ IF frame.active_indices # << >>
          /\ index_of(frame.active_indices, current_scene_index) = 0
       THEN Call("switch_to_next_scene_scheduled", "off_check")
       ELSE pc' = "off_check" /\ frame' = frame
    /\ ManagerUnchanged /\ ClockUnchanged /\ TickUnchanged

\* switch_to_next_scene_scheduled: active_indices = get_active_scene_indices()
SwitchScheduledEntry ==
    /\ pc = "switch_to_next_scene_scheduled"
    /\ Call("get_active_scene_indices", "select")
    /\ ManagerUnchanged /\ ClockUnchanged /\ TickUnchanged

\* switch_to_next_scene_scheduled: the return on no active scene, or the
\* choice of next_index; the list comprehension, list.index and randint are
\* built-ins, one step each
Select ==
    /\ pc = "select"
    /\ LET active_indices == frame.active_indices
           available_indices ==
               SelectSeq(active_indices, LAMBDA x : x # current_scene_index)
           current_pos == index_of(active_indices, current_scene_index)
       IN IF active_indices = << >>
          THEN Return(frame)
          ELSE /\ pc' = "switch_to_scene"
               /\ \E next_index \in
                      IF SCENE_SELECTION = "random"
                      THEN IF Len(active_indices) > 1
                           THEN IF available_indices # << >>
                                THEN { available_indices[p] : p \in 1..Len(available_indices) }
                                ELSE { active_indices[p] : p \in 1..Len(active_indices) }
                           ELSE {active_indices[1]}
                      ELSE IF current_pos # 0
                           THEN {active_indices[(current_pos % Len(active_indices)) + 1]}
                           ELSE {active_indices[1]} :
                     frame' = [frame EXCEPT !.next_index = next_index]
    /\ ManagerUnchanged /\ ClockUnchanged /\ TickUnchanged

\* switch_to_scene: cleanup() of the current scene
SwitchToScene ==
    /\ pc = "switch_to_scene"
    /\ current_scene' = NoScene
    /\ pc' = "create_scene"
    /\ frame' = frame
    /\ UNCHANGED << current_scene_index, scene_start_time, current_mode, next_id >>
    /\ ClockUnchanged /\ TickUnchanged

\* switch_to_scene: the constructor, which returns or raises, and the
\* assignments after it
CreateNewScene ==
    /\ pc = "create_scene"
    /\ \E ok \in BOOLEAN :
         \E r \in { create_scene(manager, frame.next_index, ok) } :
            IF r.m.raised
            THEN /\ pc' = "crashed"
                 /\ frame' = frame
                 /\ UNCHANGED << current_scene, current_scene_index,
                                 scene_start_time, next_id >>
            ELSE /\ current_scene' = r.ret
                 /\ current_scene_index' = frame.next_index
                 /\ scene_start_time' = now
                 /\ next_id' = r.m.next_id
                 /\ Return(frame)
    /\ UNCHANGED current_mode
    /\ ClockUnchanged /\ TickUnchanged

\* update(): if self.current_mode == "off": return
OffCheck ==
    /\ pc = "off_check"
    /\ pc' = IF current_mode = "off" THEN "render" ELSE "timer"
    /\ frame' = frame
    /\ ManagerUnchanged /\ ClockUnchanged /\ TickUnchanged

\* update(): the scene_duration test
Timer ==
    /\ pc = "timer"
    /\ IF now - scene_start_time >= scene_duration
       THEN Call("switch_to_next_scene_scheduled", "forward")
       ELSE pc' = "forward" /\ frame' = frame
    /\ ManagerUnchanged /\ ClockUnchanged /\ TickUnchanged

\* update(): current_scene.update(delta_time), then the return to the loop
Forward ==
    /\ pc = "forward"
    /\ pc' = "render"
    /\ frame' = frame
    /\ ManagerUnchanged /\ ClockUnchanged /\ TickUnchanged

\* render(): current_scene.render(), then the return to the loop
Render ==
    /\ pc = "render"
    /\ pc' = "idle"
    /\ frame' = NoFrame
    /\ ManagerUnchanged /\ ClockUnchanged /\ TickUnchanged

\* the statements of the calls
TickStep ==
    \/ FirstScene \/ Update \/ GetCurrentModeEntry \/ ForHour \/ ShouldCheckMode
    \/ GetActiveEntry \/ ActiveIndicesEmpty \/ ForScene \/ ModeChanged
    \/ SwitchScheduledEntry \/ Select \/ SwitchToScene \/ CreateNewScene
    \/ OffCheck \/ Timer \/ Forward \/ Render

TickNext == BeginTick \/ TickStep

\* the interpreter runs the next statement of a call in progress
TickSpec == TickInit /\ [][TickNext]_vars /\ WF_vars(TickStep)

\* ------------------------------------------------ reading the last handler
\* the last step was one iteration of the main loop
IsLoop == last.act = "loop"

\* the last step was start-up or a loop iteration: a handler of the scheduler
IsHandler == last.act \in {"loop", "startup"}

\* the positions of the trace at which op was called
Calls(op) == { p \in 1..Len(trace) : trace[p].op = op }

\* the instances that are live (constructed, not cleaned up) after the first
\* p calls of the last handler
LiveAfter(p) ==
    ( (IF last.old_scene # NoScene THEN {last.old_scene.id} ELSE {})
      \cup { trace[q].id : q \in { r \in 1..p : trace[r].op = "ctor_end" } } )
    \ { trace[q].id : q \in { r \in 1..p : trace[r].op = "cleanup" } }

\* the hour the j-th clock read of the last handler returned
HourRead(j) ==
    IF last.k # 0 /\ j >= last.k THEN next_hour(last.hour) ELSE last.hour

\* scene is the instance number id, of registry index index, constructed
\* with display_mode
IsInstance(scene, id, index, display_mode) ==
    /\ scene.id = id
    /\ scene.index = index
    /\ scene.display_mode = display_mode

\* the members of a list
Members(E) == { E[p] : p \in 1..Len(E) }

\* the indices the selection policy may return for eligible list E and
\* current index cur
PolicyChoices(E, cur) ==
    IF SCENE_SELECTION = "random"
    THEN IF Len(E) = 1 THEN {E[1]}
         ELSE IF cur \in Members(E) THEN Members(E) \ {cur} ELSE Members(E)
    ELSE IF cur \in Members(E)
         THEN { E[(p % Len(E)) + 1] : p \in { q \in 1..Len(E) : E[q] = cur } }
         ELSE {E[1]}

\* ------------------------------------------------------------------ claims
\* C1: in every reachable state, and after every call a handler makes on a
\* scene, at most one scene instance is live (constructed and not yet
\* cleaned up), and the live one is the instance the scheduler holds.
C1_AtMostOneLive ==
    IsHandler =>
        /\ \A p \in 0..Len(trace) : Cardinality(LiveAfter(p)) <= 1
        /\ LiveAfter(Len(trace)) =
               (IF current_scene # NoScene THEN {current_scene.id} ELSE {})

\* C1 witness: a handler replaced a live instance by a new one
C1_Witness ==
    /\ IsHandler
    /\ last.old_scene # NoScene
    /\ Calls("cleanup") # {} /\ Calls("ctor_end") # {}
    /\ current_scene # NoScene /\ current_scene # last.old_scene

\* C2: whenever a constructor starts, no instance is live: the outgoing
\* instance's cleanup() was called before it, in forced and scheduled swaps
C2_CleanupBeforeConstructor ==
    IsHandler =>
        \A p \in Calls("ctor_start") :
            /\ LiveAfter(p - 1) = {}
            /\ last.old_scene # NoScene =>
                   \E q \in 1..(p - 1) :
                       trace[q] = Ev("cleanup", last.old_scene.id, last.old_scene.index)

\* C2 witness: a forced swap away from a live instance
C2_Witness ==
    /\ IsLoop /\ last.forced /\ ~last.timed
    /\ last.old_scene # NoScene
    /\ Calls("ctor_start") # {}

\* C3 as stated: on every scheduled swap the new instance's constructor
\* completes before cleanup() is called on the old instance, and cleanup()
\* is called only after a successful construction.
C3_ConstructorBeforeCleanup ==
    (IsLoop /\ last.timed) =>
        \A q \in Calls("cleanup") :
            \E p \in 1..(q - 1) : trace[p].op = "ctor_end"

\* C3 amended: on every scheduled swap away from a live instance, cleanup()
\* of the outgoing instance is the first call made and the constructor of the
\* new instance starts right after it; the cleanup does not wait for the
\* construction to succeed (it has happened also when the constructor raises)
C3_CleanupThenConstructor ==
    (IsLoop /\ last.timed /\ last.old_scene # NoScene /\ Calls("ctor_start") # {}) =>
        /\ trace[1] = Ev("cleanup", last.old_scene.id, last.old_scene.index)
        /\ trace[2].op = "ctor_start"
        /\ trace[3].op \in {"ctor_end", "ctor_raise"}
        /\ Calls("cleanup") = {1} /\ Calls("ctor_start") = {2}

\* C3 witness: a scheduled swap whose constructor succeeded after the cleanup
C3_Witness ==
    /\ IsLoop /\ last.timed /\ last.old_scene # NoScene
    /\ Len(trace) >= 3
    /\ trace[1].op = "cleanup" /\ trace[3].op = "ctor_end"

\* C4 as stated: if a scene constructor fails during a swap, the previously
\* live instance is still live and was not cleaned up, the current index and
\* the start timestamp are unchanged, and the program keeps running.
C4_FailedConstructorKeepsOldScene ==
    (IsLoop /\ last.raised /\ last.old_scene # NoScene) =>
        /\ current_scene = last.old_scene
        /\ Calls("cleanup") = {}
        /\ current_scene_index = last.old_index
        /\ scene_start_time = last.old_start
        /\ pc = "running"

\* C5: on a tick where should_check_mode saw the mode change, the eligible
\* list of the new mode is non-empty and the current index is not in it, the
\* scheduler takes the forced branch in that tick, whatever time has elapsed:
\* it constructs the scene of an index the selection policy allows and, the
\* constructor returning, makes it current and resets scene_start_time.
C5_ForcedSwapOnModeChange ==
    LET E == active_from(1, current_mode)
    IN (IsLoop /\ last.changed /\ E # << >> /\ last.old_index \notin Members(E)) =>
           /\ last.forced /\ ~last.timed
           /\ \E p \in Calls("ctor_start") :
                  /\ trace[p].index \in PolicyChoices(E, last.old_index)
                  /\ ~last.raised =>
                         /\ current_scene_index = trace[p].index
                         /\ IsInstance(current_scene, trace[p].id, trace[p].index,
                                       current_mode)
           /\ ~last.raised => scene_start_time = last.t

\* C5 witness: a forced swap away from a live scene before its duration is over
C5_Witness ==
    /\ IsLoop /\ last.changed /\ last.forced
    /\ last.old_scene # NoScene
    /\ last.t - last.old_start < SCENE_DURATION
    /\ Calls("ctor_end") # {}
    /\ current_scene_index # last.old_index

ReachedDurationCheck ==
    /\ IsLoop
    /\ last.display_mode # "off"
    /\ current_mode # "off"
    /\ ~(last.forced /\ ~last.timed /\ last.raised)

ForcedSwapDone == last.forced /\ ~last.timed /\ Calls("ctor_end") # {}

StartAtCheck == IF ForcedSwapDone THEN last.t ELSE last.old_start

LeftOff == IsLoop /\ last.old_display_mode = "off" /\ last.display_mode # "off"

C10_ScheduledSwap ==
    LET E == get_active_scene_indices(HourRead(5))
    IN (ReachedDurationCheck /\ E # << >>
            /\ last.t - StartAtCheck >= SCENE_DURATION) =>
           /\ last.timed
           /\ \E p \in Calls("ctor_start") :
                  /\ trace[p].index \in PolicyChoices(E, last.old_index)
                  /\ ~last.raised =>
                         /\ current_scene_index = trace[p].index
                         /\ current_scene.index = trace[p].index
                         /\ current_scene.id = trace[p].id
           /\ ~last.raised => scene_start_time = last.t

\* C10 witness: a scheduled swap at exactly scene_duration seconds to
\* another index
C10_Witness ==
    /\ IsLoop /\ last.timed /\ ~last.forced
    /\ last.t - last.old_start = SCENE_DURATION
    /\ Calls("ctor_end") # {}
    /\ current_scene_index # last.old_index
    /\ scene_start_time = last.t

\* the largest member of a non-empty set of hours
Latest(S) == CHOOSE x \in S : \A y \in S : y <= x

\* the mode of the entry with the largest hour <= h, or of the entry with the
\* largest hour when no entry has an hour <= h
ModeOfLatestEntry(h, schedule) ==
    LET passed == { x \in DOMAIN schedule : x <= h }
    IN IF passed # {} THEN schedule[Latest(passed)]
       ELSE schedule[Latest(DOMAIN schedule)]

\* C11: for every hour 0..23 and every non-empty schedule, get_current_mode
\* returns the mode of the entry with the largest hour <= the current hour,
\* or the mode of the entry with the largest hour when there is none; for
\* {9: normal, 17: dark, 23: off} that is 8 -> off, 9 -> normal, 16 -> normal,
\* 17 -> dark, 22 -> dark, 23 -> off.
C11_LatestEntryOrWrap ==
    LET table == (8 :> "off") @@ (9 :> "normal") @@ (16 :> "normal")
                 @@ (17 :> "dark") @@ (22 :> "dark") @@ (23 :> "off")
    IN (pc = "mode" /\ DOMAIN MODE_SCHEDULE # {}) =>
           /\ current_mode = ModeOfLatestEntry(rtc_hour, MODE_SCHEDULE)
           /\ (MODE_SCHEDULE = Schedule9_17_23 /\ rtc_hour \in DOMAIN table) =>
                  current_mode = table[rtc_hour]

\* C11 witness: the wraparound case of the example, hour 8 giving off
C11_Witness ==
    /\ pc = "mode"
    /\ MODE_SCHEDULE = Schedule9_17_23
    /\ rtc_hour = 8
    /\ current_mode = "off"

\* C12: with an empty mode schedule get_current_mode returns normal for
\* every hour 0..23.
C12_EmptyScheduleIsNormal ==
    (pc = "mode" /\ DOMAIN MODE_SCHEDULE = {}) => current_mode = "normal"

\* C12 witness: the empty schedule evaluated at the last hour of the day
C12_Witness ==
    /\ pc = "mode"
    /\ DOMAIN MODE_SCHEDULE = {}
    /\ rtc_hour = 23
    /\ current_mode = "normal"

\* the registry indices, 0-based
RegistryIndices == 0..(Len(scene_classes) - 1)

\* the preference of the descriptor at registry index i
PreferenceOf(i) == scene_classes[i + 1].preference

\* C14: a descriptor's time preference gates eligibility exactly so, in every
\* mode: "day" is eligible iff the mode is normal, "night" iff the mode is
\* dark, none (any) iff the mode is normal or dark, and nothing is eligible
\* when the mode is off.
C14_PreferenceGatesEligibility ==
    last.act = "active" =>
        LET eligible == Members(last.active_indices)
        IN /\ \A i \in RegistryIndices :
                  /\ PreferenceOf(i) = "day" =>
                         (i \in eligible <=> last.mode = "normal")
                  /\ PreferenceOf(i) = "night" =>
                         (i \in eligible <=> last.mode = "dark")
                  /\ PreferenceOf(i) = None =>
                         (i \in eligible <=> last.mode \in {"normal", "dark"})
           /\ last.mode = "off" => last.active_indices = << >>

\* C14 witness: a registry with a day, a night and an any descriptor filtered
\* in dark mode: the night and the any descriptor are eligible, the day one
\* is not
C14_Witness ==
    /\ last.act = "active"
    /\ SCENES = ScenesNightAnyDay
    /\ last.mode = "dark"
    /\ last.active_indices = << 0, 1 >>

\* the spec's eligibility of a preference in a mode
EligibleIn(preference, mode) ==
    /\ mode # "off"
    /\ \/ preference = None
       \/ preference = "day" /\ mode = "normal"
       \/ preference = "night" /\ mode = "dark"

\* C15: the eligibility filter returns the eligible registry indices in
\* strictly ascending registry order, hence without duplicates, and they are
\* exactly the indices whose descriptor is eligible for the current mode.
C15_FilterKeepsRegistryOrder ==
    last.act = "active" =>
        LET E == last.active_indices
        IN /\ \A p, q \in 1..Len(E) : p < q => E[p] < E[q]
           /\ Members(E) =
                  { i \in RegistryIndices : EligibleIn(PreferenceOf(i), last.mode) }

\* C15 witness: a filter result of several indices that leaves one out
C15_Witness ==
    /\ last.act = "active"
    /\ SCENES = ScenesNightAnyDay
    /\ last.mode = "normal"
    /\ last.active_indices = << 1, 2 >>

\* the index selected by the last call of switch_to_next_scene_scheduled:
\* the one whose constructor it called
Selected == { trace[p].index : p \in Calls("ctor_start") }

\* the element of E cyclically following cur, which is in E
CyclicNext(E, cur) ==
    LET pos == CHOOSE p \in 1..Len(E) : E[p] = cur
    IN IF pos = Len(E) THEN E[1] ELSE E[pos + 1]

\* C16: under the sequential policy with a non-empty eligible list E, the
\* next index is the element of E cyclically following the current index when
\* that is in E, and E[0] otherwise; with E = [0,1,2,3] and current index 0
\* the successive swaps visit 1,2,3,0,1,...: the k-th one visits k mod 4.
C16_SequentialPolicy ==
    (last.act = "select" /\ SCENE_SELECTION = "sequential"
                         /\ last.active_indices # << >>) =>
        LET E == last.active_indices
        IN /\ Selected = { IF last.old_index \in Members(E)
                            THEN CyclicNext(E, last.old_index) ELSE E[1] }
           /\ ~last.raised => current_scene_index \in Selected
           /\ SCENES = ScenesFourAny =>
                  \A p \in Calls("ctor_start") : trace[p].index = trace[p].id % 4

\* C16 witness: the fifth successive swap over [0,1,2,3] comes back to 1
C16_Witness ==
    /\ last.act = "select" /\ SCENE_SELECTION = "sequential"
    /\ SCENES = ScenesFourAny
    /\ last.active_indices = << 0, 1, 2, 3 >>
    /\ last.old_index = 0
    /\ current_scene.id = 5
    /\ current_scene_index = 1

\* the index switch_to_next_scene_scheduled selects when randint returns rnd
SelectedWith(rnd) ==
    LET m == switch_to_next_scene_scheduled(manager, rtc_hour, now, rnd, TRUE)
    IN m.current_scene_index

\* C17: under the random policy, when the eligible list has more than one
\* element the selected index is never the current index; when it has exactly
\* one element that element is selected; and when the current index is not
\* eligible every element of the eligible list is a possible result.
C17_RandomPolicy ==
    /\ (last.act = "select" /\ SCENE_SELECTION = "random"
                            /\ last.active_indices # << >>) =>
           LET E == last.active_indices
           IN /\ Cardinality(Selected) = 1
              /\ Selected \subseteq Members(E)
              /\ Len(E) > 1 => last.old_index \notin Selected
              /\ Len(E) = 1 => Selected = {E[1]}
              /\ ~last.raised => current_scene_index \in Selected
    /\ (pc = "running" /\ SCENE_SELECTION = "random") =>
           LET E == get_active_scene_indices(rtc_hour)
           IN (E # << >> /\ current_scene_index \notin Members(E)) =>
                  \A e \in Members(E) :
                      \E rnd \in 0..(Len(E) - 1) : SelectedWith(rnd) = e

\* C17 witness: a random selection among several eligible scenes with the
\* current one among them
C17_Witness ==
    /\ last.act = "select" /\ SCENE_SELECTION = "random"
    /\ Len(last.active_indices) > 2
    /\ last.old_scene # NoScene
    /\ last.old_index \in Members(last.active_indices)
    /\ Calls("ctor_end") # {}
    /\ current_scene_index # last.old_index

\* C18: with registry [A(night), B(any), C(day)], schedule {9: normal,
\* 18: dark}, a duration of 30 s and sequential selection: at hour 10 the
\* eligible list is [B, C] and the first live scene is B or C; once 30 s have
\* passed the scheduler swaps to the other one of the two; and in a tick that
\* finds the hour at 19 (dark mode) with C current, it calls the constructor
\* of A at once, whatever time has passed, and A is current when it returns.
C18_EndToEndScenario ==
    /\ (last.act = "startup" /\ HourRead(1) = 10) =>
           /\ get_active_scene_indices(10) = << 1, 2 >>
           /\ ~last.raised
           /\ current_scene # NoScene
           /\ current_scene.index \in {1, 2}
           /\ current_scene_index = current_scene.index
    /\ (IsLoop /\ ~last.changed /\ current_mode = "normal"
               /\ HourRead(5) < 18
               /\ last.old_scene # NoScene /\ last.old_index \in {1, 2}) =>
           IF last.t - last.old_start >= ScenarioDuration
           THEN /\ Selected = {3 - last.old_index}
                /\ ~last.raised =>
                       /\ current_scene_index = 3 - last.old_index
                       /\ current_scene.index = 3 - last.old_index
                       /\ scene_start_time = last.t
           ELSE Selected = {} /\ current_scene = last.old_scene
    /\ (IsLoop /\ last.hour = 19 /\ last.old_scene # NoScene
               /\ last.old_index = 2) =>
           /\ last.forced
           /\ trace[1] = Ev("cleanup", last.old_scene.id, 2)
           /\ trace[2].op = "ctor_start" /\ trace[2].index = 0
           /\ ~last.raised =>
                  /\ current_scene_index = 0
                  /\ current_scene.index = 0
                  /\ current_scene.display_mode = "dark"

\* C18 witness: started at hour 10, the scheduler went from B to C after
\* 30 s and from C to A in the first tick at hour 19
C18_Witness ==
    /\ IsLoop /\ last.hour = 19
    /\ IsInstance(last.old_scene, 2, 2, "normal")
    /\ last.old_start = ScenarioDuration
    /\ last.t - last.old_start < ScenarioDuration
    /\ IsInstance(current_scene, 3, 0, "dark")

\* SceneManager.render() was called in the last iteration: the host loop did
\* not skip it and update() returned
RenderCalled == IsLoop /\ last.display_mode # "off" /\ ~last.raised

\* C19 as stated: render() calls no scene's render() whenever the scheduler's
\* mode is off or the eligible list of its mode is empty; otherwise it calls
\* render() exactly once, on the live instance.
C19_RenderOnlyWhenEligible ==
    RenderCalled =>
        IF current_mode = "off" \/ active_from(1, current_mode) = << >>
        THEN Calls("render") = {}
        ELSE /\ current_scene # NoScene
             /\ \E p \in Calls("render") :
                    /\ Calls("render") = {p}
                    /\ trace[p] = Ev("render", current_scene.id, current_scene.index)

\* the position of the last part equal to part in path, 0 when there is none
LastOf(part, path) ==
    IF \E p \in 1..Len(path) : path[p] = part
    THEN CHOOSE p \in 1..Len(path) :
             path[p] = part /\ \A q \in (p + 1)..Len(path) : path[q] # part
    ELSE 0

\* the sibling of a path: the suffix put before the extension of the file
\* name (the last "." after the last "/"), or at the end of a file name
\* without extension
Sibling(path) ==
    LET dot == LastOf(".", path)
    IN IF dot > LastOf("/", path)
       THEN SubSeq(path, 1, dot - 1) \o << "_night" >> \o SubSeq(path, dot, Len(path))
       ELSE path \o << "_night" >>

\* C22 as stated: the path an image scene resolves at construction is its
\* image path unchanged in every mode other than dark (Night); in dark mode it
\* is the sibling path, the suffix put before the file extension, iff that
\* sibling is in the file system, and the image path otherwise.
C22_ResolvedPath ==
    (last.act = "create" /\ ~last.raised) =>
        LET image_path == scene_classes[1].args[1]
        IN current_scene.resolved_image_path =
               IF current_mode = "dark" /\ Sibling(image_path) \in files
               THEN Sibling(image_path)
               ELSE image_path

\* the image path of the descriptor a scene instance was made from
ImagePathOf(scene) == scene_classes[scene.index + 1].args[1]

\* C23: the resolved image path of a scene instance is fixed at construction,
\* from the mode passed to the constructor; a tick that constructs nothing,
\* also one in which the mode changes, leaves the live instance and its
\* resolved path as they were, whatever the new mode and the file system.
C23_PathResolvedOnceAtConstruction ==
    /\ (IsHandler /\ Calls("ctor_end") # {}
                  /\ scene_classes[current_scene.index + 1].scene_class \in ImageScenes) =>
           /\ current_scene.display_mode = current_mode
           /\ current_scene.resolved_image_path =
                  resolve_image_path_for_mode(ImagePathOf(current_scene),
                                              current_scene.display_mode)
    /\ (IsLoop /\ Calls("ctor_start") = {}) =>
           /\ current_scene.id = last.old_scene.id
           /\ current_scene.display_mode = last.old_scene.display_mode
           /\ current_scene.resolved_image_path = last.old_scene.resolved_image_path

\* C23 witness: the mode went from normal to dark without a swap, and the
\* live image scene keeps the normal image although its "_night" file exists
C23_Witness ==
    /\ IsLoop /\ last.changed /\ Calls("ctor_start") = {}
    /\ current_mode = "dark"
    /\ current_scene # NoScene
    /\ current_scene.display_mode = "normal"
    /\ current_scene.resolved_image_path = DefaultImage
    /\ DefaultImageNight \in files
    /\ Calls("render") # {}

\* a tuple of config.SCENES the registration accepts
WellFormed(scene_config) ==
    /\ scene_config.len \in 2..4
    /\ scene_config.name \in scene_classes_by_name

\* the positions of config.SCENES that hold accepted tuples, in order
RECURSIVE WellFormedPositions(_)
WellFormedPositions(n) ==
    IF n = 0 THEN << >>
    ELSE WellFormedPositions(n - 1)
         \o (IF WellFormed(SCENES[n]) THEN << n >> ELSE << >>)

\* C24: after registration the registry holds one descriptor for each
\* well-formed tuple of config.SCENES, in configuration order, with the
\* tuple's class, arguments and preference, and none for a tuple of an
\* unknown class or of a wrong length, wherever the malformed tuples stand.
C24_MalformedSkippedValidKept ==
    pc # "config" =>
        LET pos == WellFormedPositions(Len(SCENES))
        IN /\ Len(scene_classes) = Len(pos)
           /\ \A j \in 1..Len(pos) :
                 /\ scene_classes[j].scene_class = SCENES[pos[j]].name
                 /\ scene_classes[j].args = SCENES[pos[j]].args
                 /\ scene_classes[j].preference =
                        IF SCENES[pos[j]].len = 4 THEN SCENES[pos[j]].pref ELSE None

\* C24 witness: two malformed tuples, one of an unknown class and one of a
\* wrong length, stand before a valid one, and the registry holds the valid one
C24_Witness ==
    /\ last.act = "register"
    /\ Len(SCENES) = 3
    /\ SCENES[1].name \notin scene_classes_by_name
    /\ SCENES[2].len \notin 2..4
    /\ WellFormed(SCENES[3])
    /\ Len(scene_classes) = 1
    /\ scene_classes[1].scene_class = SCENES[3].name

\* C25 as stated: a loop iteration that constructs a scene comes at least
\* scene_duration after the previous construction, constructs one scene only,
\* and an iteration that leaves the live instance in place constructs nothing.
C25_ConstructionOncePerDuration ==
    IsLoop =>
        /\ (Calls("ctor_start") # {} /\ last.old_scene # NoScene) =>
               last.t - last.old_start >= scene_duration
        /\ Cardinality(Calls("ctor_start")) <= 1
        /\ (~last.raised /\ current_scene.id = last.old_scene.id) =>
               Calls("ctor_start") = {}

\* C25 amended: a loop iteration constructs at most one scene, and only in a
\* swap; the swap is either the timed one, at least scene_duration after the
\* previous construction, or the one forced by a mode change, which can come
\* any time after the previous construction.
C25_ConstructionOnlyInSwaps ==
    IsLoop =>
        /\ Calls("ctor_start") # {} =>
               \/ last.t - last.old_start >= scene_duration
               \/ /\ last.forced /\ last.changed
                  /\ current_mode # last.old_mode
        /\ Cardinality(Calls("ctor_start")) <= 1
        /\ (~last.raised /\ current_scene.id = last.old_scene.id) =>
               Calls("ctor_start") = {}
        /\ Calls("ctor_start") # {} =>
               /\ last.forced \/ last.timed
               /\ last.old_scene # NoScene => Calls("cleanup") # {}

\* C25 witness: a scene is constructed in a swap forced by a mode change,
\* less than scene_duration after the construction of the scene it replaces
C25_Witness ==
    /\ IsLoop /\ last.forced /\ ~last.raised
    /\ Calls("ctor_end") # {}
    /\ last.old_scene # NoScene
    /\ last.t - last.old_start < scene_duration
    /\ last.t - last.old_start > 0
    /\ current_scene.id # last.old_scene.id

\* C26: no step of the program after registration changes the registry: the
\* descriptors, their order, and each descriptor's class, arguments, keyword
\* arguments and preference stay as registered through every start-up, tick,
\* render and swap; in particular, constructing a scene leaves the stored
\* kwargs without the display_mode entry passed to the constructor.
C26_RegistryNeverChanges == [][scene_classes' = scene_classes]_vars

\* C26 witness: a tick swapped to a scene constructed with display_mode, and
\* the kwargs stored in that scene's descriptor have no display_mode
C26_Witness ==
    /\ IsLoop /\ last.timed /\ Calls("ctor_end") # {}
    /\ Calls("render") # {}
    /\ current_scene.display_mode = current_mode
    /\ "display_mode" \notin DOMAIN scene_classes[current_scene.index + 1].kwargs
    /\ scene_classes = add_scene_classes(SCENES, 1)

\* the last loop iteration performed the timed swap: it reached the
\* scene_duration branch of update() and a constructor was called
ScheduledSwap == last.timed /\ Calls("ctor_start") # {}

\* C27 as stated: in a loop iteration that starts with a live scene and whose
\* mode is not off, update(dt) is forwarded exactly once, to the live scene,
\* when no timed swap is performed, and to no scene when one is performed.
C27_NoUpdateOnSwapTick ==
    (IsLoop /\ last.old_scene # NoScene
            /\ last.display_mode # "off" /\ current_mode # "off") =>
        IF ScheduledSwap
        THEN Calls("update") = {}
        ELSE /\ Cardinality(Calls("update")) = 1
             /\ \A p \in Calls("update") : trace[p].id = current_scene.id

\* C27 amended: a loop iteration whose mode is not off forwards update(dt)
\* exactly once, after the swap checks and before render(), to the scene that
\* is current then: on a tick with a swap, timed or forced, this is the scene
\* just constructed. Nothing is forwarded when there is no current scene,
\* when a constructor raised, or when the mode is off.
C27_UpdateForwardedAfterSwapChecks ==
    IsLoop =>
        IF last.display_mode = "off" \/ current_mode = "off"
           \/ last.raised \/ current_scene = NoScene
        THEN Calls("update") = {}
        ELSE /\ Cardinality(Calls("update")) = 1
             /\ \A p \in Calls("update") :
                   /\ trace[p].id = current_scene.id
                   /\ \A q \in Calls("ctor_end") \cup Calls("cleanup") : q < p
                   /\ \A q \in Calls("render") : p < q

\* C27 witness: a timed swap replaced the live scene, and update(dt) went to
\* the scene constructed in the same tick
C27_Witness ==
    /\ IsLoop /\ ScheduledSwap /\ ~last.raised
    /\ last.old_scene # NoScene
    /\ current_scene.id # last.old_scene.id
    /\ \E p \in Calls("update") :
          /\ trace[p].id = current_scene.id
          /\ \E q \in Calls("ctor_end") : q < p /\ trace[q].id = trace[p].id

\* C28: every call of update() returns, or ends in the exception of a
\* constructor, and every call of render() returns, whatever the registry,
\* the schedule, the hour, the policy and the elapsed time: each loop of the
\* mode lookup, of the eligibility filter and of the selection ends.
C28_UpdateAndRenderTerminate ==
    /\ (pc = "update") ~> (pc \in {"render", "crashed"})
    /\ (pc = "render") ~> (pc = "idle")
    /\ (pc = "startup") ~> (pc \in {"idle", "crashed"})

\* C28 witness: update() returned after a random selection among several
\* active scenes, the loops over the schedule and the registry run to the end
C28_Witness ==
    /\ pc = "render"
    /\ SCENE_SELECTION = "random"
    /\ Len(frame.active_indices) > 1
    /\ frame.i = Len(scene_classes)
    /\ frame.h > 1
    /\ current_scene.index = frame.next_index
    /\ scene_start_time = now /\ now > 0

\* C29: at start-up, when no scene has been constructed yet, the selection
\* has no current scene to follow or to avoid: the sequential policy
\* constructs the first eligible index E[0], and the random policy can
\* construct every eligible index, registry index 0 included.
C29_StartupHasNoCurrentScene ==
    /\ (last.act = "startup" /\ SCENE_SELECTION = "sequential") =>
           LET E == get_active_scene_indices(HourRead(1))
           IN E # << >> => Selected = {E[1]}
    /\ (pc = "boot" /\ SCENE_SELECTION = "random") =>
           LET E == get_active_scene_indices(rtc_hour)
           IN \A e \in Members(E) :
                  \E rnd \in 0..(Len(E) - 1) : SelectedWith(rnd) = e

\* C30: a loop iteration in which the mode did not change and less than
\* scene_duration has passed since the scene started leaves the current
\* scene index, the live instance and the start time as they were, and calls
\* no constructor and no cleanup().
C30_QuietTickChangesNothing ==
    (IsLoop /\ ~last.changed /\ last.t - last.old_start < scene_duration) =>
        /\ current_scene_index = last.old_index
        /\ current_scene = last.old_scene
        /\ scene_start_time = last.old_start
        /\ current_mode = last.old_mode
        /\ Calls("ctor_start") = {}
        /\ Calls("cleanup") = {}
        /\ ~last.raised

\* C30 witness: such an iteration ran update() with a live scene, which was
\* updated and rendered and is still the current one
C30_Witness ==
    /\ IsLoop /\ ~last.changed
    /\ last.display_mode # "off"
    /\ last.t - last.old_start < scene_duration
    /\ last.t - last.old_start > 0
    /\ last.old_scene # NoScene
    /\ current_scene = last.old_scene
    /\ Calls("update") # {} /\ Calls("render") # {}

\* C31: after every loop iteration that ran update() to its end with the
\* scheduler's mode not off and some scene eligible in that mode, a scene is
\* live and its index is eligible; in particular, after a start-up that
\* found no eligible scene, the iteration in which a mode change makes a
\* scene eligible constructs one, whatever time has passed.
C31_LiveEligibleSceneAfterTick ==
    (RenderCalled /\ current_mode # "off"
                  /\ active_from(1, current_mode) # << >>) =>
        /\ current_scene # NoScene
        /\ current_scene.index = current_scene_index
        /\ current_scene_index \in Members(active_from(1, current_mode))
        /\ (last.old_scene = NoScene /\ last.changed) => Calls("ctor_end") # {}

\* the clock read of the last handler whose hour decided the eligible list
\* the constructed scene was selected from: the one read of start-up, or in
\* update() the read of the timed or of the forced switch
SelectionRead ==
    IF last.act = "startup" THEN 1 ELSE IF last.timed THEN 5 ELSE 4

\* C32: every instance is constructed with display_mode equal to the mode
\* under which its index was selected as eligible, also when the RTC hour
\* advances between the clock reads made within one tick.
C32_DisplayModeIsSelectionMode ==
    (IsHandler /\ Calls("ctor_end") # {}) =>
        current_scene.display_mode =
            get_current_mode(HourRead(SelectionRead), MODE_SCHEDULE)

\* the calls of the last handler made on the instance number id
CallsOn(id) == { p \in 1..Len(trace) : trace[p].id = id }

\* C33: a handler calls cleanup() exactly once on the instance it replaces
\* and on no other; after the cleanup() of an instance it makes no call on
\* that instance; and the only instances it calls are the one current when
\* it began and the ones it constructs, which are new instances, so that an
\* instance cleaned up earlier is never called again.
C33_CleanupOnceThenNoCalls ==
    IsHandler =>
        /\ \A q \in Calls("cleanup") :
              /\ last.old_scene # NoScene
              /\ trace[q].id = last.old_scene.id
              /\ CallsOn(trace[q].id) \cap (q + 1)..Len(trace) = {}
        /\ (last.old_scene # NoScene /\ Calls("ctor_start") # {}) =>
              Cardinality(Calls("cleanup")) = 1
        /\ Calls("ctor_start") = {} => Calls("cleanup") = {}
        /\ \A p \in Calls("ctor_start") :
              /\ trace[p].id > last.old_scene.id
              /\ CallsOn(trace[p].id) \cap 1..(p - 1) = {}
        /\ \A p \in 1..Len(trace) :
              \/ last.old_scene # NoScene /\ trace[p].id = last.old_scene.id
              \/ \E q \in Calls("ctor_start") : q <= p /\ trace[q].id = trace[p].id
        /\ (~last.raised /\ current_scene # NoScene) =>
              \A q \in Calls("cleanup") : trace[q].id # current_scene.id

\* C33 witness: the only eligible scene was due and was replaced by a new
\* instance of the same descriptor: the old instance got its one cleanup(),
\* and update() and render() went to the new instance
C33_Witness ==
    /\ IsLoop /\ last.timed /\ ~last.raised
    /\ last.old_scene # NoScene
    /\ current_scene.index = last.old_scene.index
    /\ current_scene.id # last.old_scene.id
    /\ Cardinality(CallsOn(last.old_scene.id)) = 1
    /\ \E p \in Calls("update") : trace[p].id = current_scene.id
    /\ \E p \in Calls("render") : trace[p].id = current_scene.id

\* the last handler reached switch_to_scene: it called cleanup() or a
\* constructor, or assigned the index or the start time
Switched ==
    \/ Calls("cleanup") # {} \/ Calls("ctor_start") # {}
    \/ current_scene_index # last.old_index
    \/ scene_start_time # last.old_start

\* C34: every index the scheduled selection passes to switch_to_scene is in
\* the eligible list computed in that call, hence a registry index; so
\* create_scene does not return None there, and after a swap whose
\* constructor returned the current scene is an instance of the descriptor
\* at current_scene_index.
C34_SelectedIndexIsEligible ==
    IsHandler =>
        /\ \A p \in Calls("ctor_start") :
              /\ trace[p].index \in
                     Members(get_active_scene_indices(HourRead(SelectionRead)))
              /\ trace[p].index \in RegistryIndices
        /\ (Switched /\ ~last.raised) =>
              /\ current_scene # NoScene
              /\ current_scene.index = current_scene_index
              /\ \E p \in Calls("ctor_end") :
                    /\ trace[p].id = current_scene.id
                    /\ trace[p].index = current_scene_index

\* C34 witness: a timed swap chose the last descriptor of the registry from
\* an eligible list that leaves some descriptor out
C34_Witness ==
    /\ IsLoop /\ last.timed /\ ~last.raised
    /\ Calls("ctor_end") # {}
    /\ Len(get_active_scene_indices(HourRead(5))) < Len(scene_classes)
    /\ Len(get_active_scene_indices(HourRead(5))) > 1
    /\ current_scene_index = Len(scene_classes) - 1
    /\ current_scene.index = current_scene_index

\* update() was called in the last loop iteration
UpdateCalled == IsLoop /\ last.display_mode # "off"

\* C35: after every call of update() the stored current_mode is the mode
\* the schedule gives for the hour should_check_mode read in that call; and
\* no step changes the stored mode but a call of update() that stores this
\* mode: not start-up, not an iteration skipped in off mode, not the passing
\* of time.
C35_StoredModeIsDerived ==
    /\ [](UpdateCalled =>
             current_mode = get_current_mode(HourRead(2), MODE_SCHEDULE))
    /\ [][current_mode' # current_mode =>
             /\ last'.act = "loop" /\ last'.display_mode # "off"
             /\ last'.changed
             /\ last'.old_mode = current_mode
             /\ current_mode' =
                    get_current_mode(IF last'.k \in {1, 2}
                                     THEN next_hour(rtc_hour) ELSE rtc_hour,
                                     MODE_SCHEDULE)]_vars

\* C35 witness: update() found the hour in another mode and stored it
C35_Witness ==
    /\ UpdateCalled /\ last.changed
    /\ last.old_mode = "normal" /\ current_mode = "dark"
    /\ get_current_mode(HourRead(2), MODE_SCHEDULE) = "dark"
    /\ get_current_mode(last.hour, MODE_SCHEDULE) = "dark"

\* C36: a descriptor whose preference is none of "day", "night" and None is
\* eligible in normal mode and in dark mode and not eligible in off mode.
C36_UnknownPreferenceIsAnyMode ==
    last.act = "active" =>
        \A i \in RegistryIndices :
            PreferenceOf(i) \notin {None, "day", "night"} =>
                (i \in Members(last.active_indices)
                     <=> last.mode \in {"normal", "dark"})

\* C36 witness: in dark mode a scene of preference "evening" is eligible
\* next to a day scene that is not
C36_Witness ==
    /\ last.act = "active"
    /\ last.mode = "dark"
    /\ PreferenceOf(0) = "day" /\ PreferenceOf(1) = "evening"
    /\ last.active_indices = << 1 >>


\* ---------------------------------------------------------------------
\* TetrisScene: the grid, the falling piece and update()
\* ---------------------------------------------------------------------

GRID_WIDTH == 16

GRID_HEIGHT == 6

TOTAL_HEIGHT == 10

\* Updates of one run of the scene.
MaxUpdates == 9

\* Tetromino.SHAPES: the four blocks (dx, dy) of a shape in each rotation.
SHAPES ==
    [ I |-> << << <<0,1>>, <<1,1>>, <<2,1>>, <<3,1>> >>,
               << <<2,0>>, <<2,1>>, <<2,2>>, <<2,3>> >>,
               << <<0,2>>, <<1,2>>, <<2,2>>, <<3,2>> >>,
               << <<1,0>>, <<1,1>>, <<1,2>>, <<1,3>> >> >>,
      O |-> << << <<1,0>>, <<2,0>>, <<1,1>>, <<2,1>> >>,
               << <<1,0>>, <<2,0>>, <<1,1>>, <<2,1>> >>,
               << <<1,0>>, <<2,0>>, <<1,1>>, <<2,1>> >>,
               << <<1,0>>, <<2,0>>, <<1,1>>, <<2,1>> >> >>,
      T |-> << << <<1,0>>, <<0,1>>, <<1,1>>, <<2,1>> >>,
               << <<1,0>>, <<1,1>>, <<2,1>>, <<1,2>> >>,
               << <<0,1>>, <<1,1>>, <<2,1>>, <<1,2>> >>,
               << <<1,0>>, <<0,1>>, <<1,1>>, <<1,2>> >> >>,
      S |-> << << <<1,0>>, <<2,0>>, <<0,1>>, <<1,1>> >>,
               << <<1,0>>, <<1,1>>, <<2,1>>, <<2,2>> >>,
               << <<1,1>>, <<2,1>>, <<0,2>>, <<1,2>> >>,
               << <<0,0>>, <<0,1>>, <<1,1>>, <<1,2>> >> >>,
      Z |-> << << <<0,0>>, <<1,0>>, <<1,1>>, <<2,1>> >>,
               << <<2,0>>, <<1,1>>, <<2,1>>, <<1,2>> >>,
               << <<0,1>>, <<1,1>>, <<1,2>>, <<2,2>> >>,
               << <<1,0>>, <<0,1>>, <<1,1>>, <<0,2>> >> >>,
      J |-> << << <<0,0>>, <<0,1>>, <<1,1>>, <<2,1>> >>,
               << <<1,0>>, <<2,0>>, <<1,1>>, <<1,2>> >>,
               << <<0,1>>, <<1,1>>, <<2,1>>, <<2,2>> >>,
               << <<1,0>>, <<1,1>>, <<0,2>>, <<1,2>> >> >>,
      L |-> << << <<2,0>>, <<0,1>>, <<1,1>>, <<2,1>> >>,
               << <<1,0>>, <<1,1>>, <<1,2>>, <<2,2>> >>,
               << <<0,1>>, <<1,1>>, <<2,1>>, <<0,2>> >>,
               << <<0,0>>, <<1,0>>, <<1,1>>, <<1,2>> >> >> ]

\* Tetromino.get_blocks: the absolute cells <<x, y>> of the four blocks.
get_blocks(piece) ==
    { << piece.x + b[1], piece.y + b[2] >> :
          b \in Members(SHAPES[piece.shape_type][piece.rotation + 1]) }

\* Tetromino.rotate
rotate(piece) == [piece EXCEPT !.rotation = (@ + 1) % 4]

\* The values choice() and randint() give _spawn_piece: the shape, the
\* column (out of 0 .. GRID_WIDTH - 1) and the number of rotations.
SpawnShapes == {"I", "O"}

SpawnXs == {0, 12, 13}

SpawnRotations == {0, 1}

Spawns == [shape_type : SpawnShapes, x : SpawnXs, rotations : SpawnRotations]

RECURSIVE rotated(_, _)
rotated(piece, n) == IF n = 0 THEN piece ELSE rotated(rotate(piece), n - 1)

\* _spawn_piece: a new piece at row 0 of the drawn column, rotated; the
\* colour is left out.
spawn_piece(sp) ==
    rotated([shape_type |-> sp.shape_type, x |-> sp.x, y |-> 0, rotation |-> 0],
            sp.rotations)

\* _check_collision: some block leaves the grid to the left, to the right
\* or below, or lies on a locked cell.  The grid is the set of its cells
\* that are not None.
check_collision(grid, piece, offset_x, offset_y) ==
    \E b \in get_blocks(piece) :
        LET test_x == b[1] + offset_x
            test_y == b[2] + offset_y
        IN  \/ test_x < 0 \/ test_x >= GRID_WIDTH
            \/ test_y >= TOTAL_HEIGHT
            \/ test_y >= 0 /\ << test_x, test_y >> \in grid

\* The cells _lock_piece assigns.
lock_writes(piece) ==
    { b \in get_blocks(piece) :
          /\ 0 <= b[2] /\ b[2] < TOTAL_HEIGHT
          /\ 0 <= b[1] /\ b[1] < GRID_WIDTH }

\* _lock_piece
lock_piece(grid, piece) == grid \cup lock_writes(piece)

\* The piece after the random move (move_dir is 0 when randint gives no
\* move) and the random rotation of one fall, each undone on a collision.
moved(grid, piece, move_dir, turn) ==
    LET p1 == IF move_dir # 0 /\ ~check_collision(grid, piece, move_dir, 0)
              THEN [piece EXCEPT !.x = @ + move_dir] ELSE piece
    IN  IF turn /\ ~check_collision(grid, rotate(p1), 0, 0)
        THEN rotate(p1) ELSE p1

\* TetrisScene.update with delta_time one time unit: the scene after the
\* call, with the piece that landed in it, if one did.
tetris_update(s, d) ==
    LET timer == s.reset_timer + 1
        reset == timer >= s.reset_interval
        grid0 == IF reset THEN {} ELSE s.grid
        s1    == [s EXCEPT !.grid = grid0,
                           !.reset_timer = IF reset THEN 0 ELSE timer,
                           !.fall_timer = s.fall_timer + 1,
                           !.landed = {}]
    IN  IF s1.fall_timer < s.fall_speed THEN s1
        ELSE
            LET p2 == moved(grid0, s.current_piece, d.move_dir, d.turn)
            IN  IF ~check_collision(grid0, p2, 0, 1)
                THEN [s1 EXCEPT !.fall_timer = 0,
                                !.current_piece = [p2 EXCEPT !.y = @ + 1]]
                ELSE [s1 EXCEPT !.fall_timer = 0,
                                !.grid = lock_piece(grid0, p2),
                                !.landed = {p2},
                                !.current_piece = spawn_piece(d.spawn)]

\* TetrisScene.__init__: an empty grid, both timers at zero and a first
\* piece.  fall_speed and reset_interval are in time units of one update.
tetris_init(fall_speed, reset_interval, sp) ==
    [grid |-> {}, current_piece |-> spawn_piece(sp),
     fall_speed |-> fall_speed, fall_timer |-> 0,
     reset_interval |-> reset_interval, reset_timer |-> 0,
     landed |-> {}]

FallSpeeds == {1, 2}

RESET_INTERVAL == 40

\* The grid after three 'I' pieces spawned flat in columns 0, 4 and 8 have
\* fallen to the bottom row and landed, 27 updates after construction with
\* fall_speed 1.
ThreeLanded ==
    [tetris_init(1, RESET_INTERVAL, [shape_type |-> "I", x |-> 12, rotations |-> 0])
        EXCEPT !.grid = { << x, TOTAL_HEIGHT - 1 >> : x \in 0 .. 11 },
               !.reset_timer = 27]

TetrisInit ==
    /\ MODE_SCHEDULE = ScheduleDayNight
    /\ SCENES = << >>
    /\ SCENE_SELECTION = "sequential"
    /\ rtc_hour = 0
    /\ now = 0
    /\ hour_fresh = FALSE
    /\ hour_changes = 0
    /\ pc = "running"
    /\ scene_classes = << >>
    /\ current_scene = NoScene
    /\ current_scene_index = 0
    /\ scene_start_time = 0
    /\ current_mode = "normal"
    /\ scene_duration = SCENE_DURATION
    /\ files = {}
    /\ next_id = 1
    /\ current_display_mode = "normal"
    /\ off_time = 0
    /\ trace = << >>
    /\ last = [act |-> "init"]
    /\ frame = NoFrame
    /\ game \in { tetris_init(f, RESET_INTERVAL, sp) : f \in FallSpeeds, sp \in Spawns }
                  \cup { ThreeLanded }

\* The random draws update() makes in scene s: none before the fall timer
\* runs out, then the move and the rotation, and a spawn when the piece
\* lands.
Draws(s) ==
    LET grid0 == IF s.reset_timer + 1 >= s.reset_interval THEN {} ELSE s.grid
        none  == CHOOSE sp \in Spawns : TRUE
    IN  IF s.fall_timer + 1 < s.fall_speed
        THEN { [move_dir |-> 0, turn |-> FALSE, spawn |-> none] }
        ELSE UNION { { [move_dir |-> mv, turn |-> tn, spawn |-> sp] :
                          sp \in IF check_collision(grid0,
                                        moved(grid0, s.current_piece, mv, tn), 0, 1)
                                 THEN Spawns ELSE { none } } :
                     mv \in {-1, 0, 1}, tn \in BOOLEAN }

\* One pass of the main loop with the scene current: update(delta_time).
TetrisUpdate ==
    /\ now < MaxUpdates
    /\ \E d \in Draws(game) :
           \E s \in { tetris_update(game, d) } :
               /\ game' = s
               /\ last' = [act |-> "tetris_update", old_grid |-> game.grid]
    /\ now' = now + 1
    /\ UNCHANGED << frame, MODE_SCHEDULE, SCENES, SCENE_SELECTION, rtc_hour,
                    hour_fresh, hour_changes, pc, scene_classes, current_scene,
                    current_scene_index, scene_start_time, current_mode,
                    scene_duration, files, next_id, current_display_mode,
                    off_time, trace >>

TetrisNext == TetrisUpdate

TetrisSpec == TetrisInit /\ [][TetrisNext]_vars


TetrisUpdated == last.act = "tetris_update"

\* The rows of the grid whose every cell is locked.
FullRows(grid) ==
    { y \in 0 .. TOTAL_HEIGHT - 1 :
          \A x \in 0 .. GRID_WIDTH - 1 : << x, y >> \in grid }

\* C37: after an update in which a piece landed and was locked, no row of
\* the grid has every cell occupied: a row the piece completed has been
\* cleared.
C37_FullRowClearedAfterLock ==
    (TetrisUpdated /\ game.landed # {}) => FullRows(game.grid) = {}

\* C38: after any update, every block of the current piece lies in the
\* columns 0 .. GRID_WIDTH - 1 and on no locked cell, and the cells the
\* update locked are cells of the grid.
C38_PieceInsideAndFree ==
    TetrisUpdated =>
        /\ \A b \in get_blocks(game.current_piece) :
               /\ 0 <= b[1] /\ b[1] < GRID_WIDTH
               /\ b \notin game.grid
        /\ game.grid \ last.old_grid
               \subseteq (0 .. GRID_WIDTH - 1) \X (0 .. TOTAL_HEIGHT - 1)


\* ---------------------------------------------------------------------
\* AsteroidsScene: the lasers, the asteroids and update()
\* ---------------------------------------------------------------------

\* Time is counted in eighths of a second.  Laser.lifetime is 1.5 s.
LIFETIME == 12

\* The delta_time values of the updates: 0.25 s, 0.375 s and 1 s.
Deltas == {2, 3, 8}

\* The num_asteroids values a scene is constructed with.
NumAsteroids == {0, 4}

\* Updates are followed while the scene has at most MaxAsteroids asteroids
\* and the ship's fire timer is at most MaxFireTimer.
MaxAsteroids == 5

MaxFireTimer == 10

\* Ship.should_fire: the timer after the call and whether the ship fires;
\* chance is the outcome of randint(1, 100) <= 60.  The timer exceeds
\* 0.8 s when ten times its eighths exceed 64.
should_fire(fire_timer, delta_time, chance) ==
    LET timer == fire_timer + delta_time
    IN  IF 10 * timer > 64 /\ chance
        THEN [fire |-> TRUE, fire_timer |-> 0]
        ELSE [fire |-> FALSE, fire_timer |-> timer]

\* Asteroid.split: the possible lists of pieces, two or three of the next
\* size, none for a small asteroid.
split(size) ==
    IF size = "small" THEN { << >> }
    ELSE LET next_size == IF size = "large" THEN "medium" ELSE "small"
         IN  { << next_size, next_size >>, << next_size, next_size, next_size >> }

\* list.remove of the k-th element.
remove(list, k) == SubSeq(list, 1, k - 1) \o SubSeq(list, k + 1, Len(list))


Event(ev, arg) == [ev |-> ev, arg |-> arg]

\* A laser of the given age that the loop kept although it hit: the hit
\* laser is appended to active_lasers.
laser_step_keeping_hit_laser(laser, asteroids, active, log, delta_time) ==
    LET age == laser + delta_time
    IN  IF ~(age < LIFETIME)
        THEN { [asteroids |-> asteroids, active |-> active, log |-> log] }
        ELSE { [asteroids |-> asteroids, active |-> Append(active, age),
                log |-> log] }
             \cup
             UNION {
                 { [asteroids |-> remove(asteroids, k) \o pieces,
                    active    |-> Append(active, age),
                    log       |-> log \o << Event("hit", age),
                                            Event("remove", asteroids[k]),
                                            Event("extend", Len(pieces)) >>] :
                       pieces \in split(asteroids[k]) } :
                 k \in 1 .. Len(asteroids) }

\* One pass of the loop over self.lasers for a laser of the given age:
\* Laser.update ages it and tells whether it is still alive; a live laser
\* is tested against the asteroids in list order, and the first one it
\* collides with (any k, the positions being left out) is removed and
\* replaced by its pieces, the laser being dropped; a laser that hits
\* nothing is kept.
laser_step(laser, asteroids, active, log, delta_time) ==
    LET age == laser + delta_time
    IN  IF ~(age < LIFETIME)
        THEN { [asteroids |-> asteroids, active |-> active, log |-> log] }
        ELSE { [asteroids |-> asteroids, active |-> Append(active, age),
                log |-> log] }
             \cup
             UNION {
                 { [asteroids |-> remove(asteroids, k) \o pieces,
                    active    |-> active,
                    log       |-> log \o << Event("hit", age),
                                            Event("remove", asteroids[k]),
                                            Event("extend", Len(pieces)) >>] :
                       pieces \in split(asteroids[k]) } :
                 k \in 1 .. Len(asteroids) }

\* The loop over self.lasers: the possible outcomes.
RECURSIVE laser_loop(_, _, _, _, _)
laser_loop(lasers, asteroids, active, log, delta_time) ==
    IF lasers = << >>
    THEN { [asteroids |-> asteroids, active |-> active, log |-> log] }
    ELSE UNION { laser_loop(Tail(lasers), r.asteroids, r.active, r.log, delta_time) :
                     r \in laser_step(Head(lasers), asteroids, active, log,
                                      delta_time) }

large_count(asteroids) ==
    Cardinality({ k \in 1 .. Len(asteroids) : asteroids[k] = "large" })

\* AsteroidsScene.update: the possible scenes after the call, each with the
\* log of what the call did.  A laser is its age; the ship is its fire
\* timer.
asteroids_update(s, delta_time, chance) ==
    LET f       == should_fire(s.fire_timer, delta_time, chance)
        created == f.fire /\ Len(s.lasers) < s.max_lasers
        lasers  == IF created THEN Append(s.lasers, 0) ELSE s.lasers
        log     == IF created THEN << Event("fire", 0) >> ELSE << >>
    IN  { LET spawn == large_count(r.asteroids) < s.target_asteroid_count
          IN  [scene |-> [s EXCEPT !.fire_timer = f.fire_timer,
                                   !.lasers = r.active,
                                   !.asteroids = IF spawn
                                                 THEN Append(r.asteroids, "large")
                                                 ELSE r.asteroids],
               log   |-> IF spawn THEN Append(r.log, Event("spawn", "large"))
                         ELSE r.log] :
          r \in laser_loop(lasers, s.asteroids, << >>, log, delta_time) }

Max(a, b) == IF a > b THEN a ELSE b

Min(a, b) == IF a < b THEN a ELSE b

\* AsteroidsScene.__init__
asteroids_init(num_asteroids) ==
    LET target == Max(3, Min(8, num_asteroids))
    IN  [asteroids |-> [k \in 1 .. target |-> "large"],
         target_asteroid_count |-> target,
         lasers |-> << >>, max_lasers |-> 6, fire_timer |-> 0]

AsteroidsInit ==
    /\ MODE_SCHEDULE = ScheduleDayNight
    /\ SCENES = << >>
    /\ SCENE_SELECTION = "sequential"
    /\ rtc_hour = 0
    /\ now = 0
    /\ hour_fresh = FALSE
    /\ hour_changes = 0
    /\ pc = "running"
    /\ scene_classes = << >>
    /\ current_scene = NoScene
    /\ current_scene_index = 0
    /\ scene_start_time = 0
    /\ current_mode = "normal"
    /\ scene_duration = SCENE_DURATION
    /\ files = {}
    /\ next_id = 1
    /\ current_display_mode = "normal"
    /\ off_time = 0
    /\ trace = << >>
    /\ last = [act |-> "init"]
    /\ frame = NoFrame
    /\ game \in { asteroids_init(n) : n \in NumAsteroids }

\* One pass of the main loop with the scene current: update(delta_time).
AsteroidsUpdate ==
    /\ Len(game.asteroids) <= MaxAsteroids
    /\ game.fire_timer <= MaxFireTimer
    /\ \E delta_time \in Deltas, chance \in BOOLEAN :
           \E r \in asteroids_update(game, delta_time, chance) :
               /\ game' = r.scene
               /\ trace' = r.log
               /\ last' = [act |-> "asteroids_update", delta_time |-> delta_time,
                           old_lasers |-> game.lasers,
                           old_asteroids |-> game.asteroids]
    /\ UNCHANGED << frame, MODE_SCHEDULE, SCENES, SCENE_SELECTION, rtc_hour, now,
                    hour_fresh, hour_changes, pc, scene_classes, current_scene,
                    current_scene_index, scene_start_time, current_mode,
                    scene_duration, files, next_id, current_display_mode,
                    off_time >>

AsteroidsNext == AsteroidsUpdate

AsteroidsSpec == AsteroidsInit /\ [][AsteroidsNext]_vars

AsteroidsUpdated == last.act = "asteroids_update"

Events(ev) == { k \in 1 .. Len(trace) : trace[k].ev = ev }

\* C39: after any update the scene has at most max_lasers lasers; the
\* update created at most one laser; every laser that hit an asteroid is
\* gone from the list; and the update removed one asteroid for each such
\* laser, the list having lost that many and gained the pieces and the
\* spawned asteroid.
C39_LasersBoundedAndHitsPaired ==
    AsteroidsUpdated =>
        /\ Len(game.lasers) <= game.max_lasers
        /\ Cardinality(Events("fire")) <= 1
        /\ Len(game.lasers) + Cardinality(Events("hit"))
               <= Len(last.old_lasers) + Cardinality(Events("fire"))
        /\ \A k \in Events("hit") : trace[k].arg \notin Members(game.lasers)
        /\ Cardinality(Events("remove")) = Cardinality(Events("hit"))
        /\ \A k \in Events("hit") :
               k < Len(trace) /\ trace[k + 1].ev = "remove"

\* An update in which the ship fired, an older laser hit a large asteroid
\* and was dropped, and the new laser stayed.
C39_Witness ==
    /\ AsteroidsUpdated
    /\ Cardinality(Events("fire")) = 1
    /\ Cardinality(Events("hit")) = 1
    /\ \E k \in Events("remove") : trace[k].arg = "large"
    /\ Len(last.old_lasers) = 1
    /\ Len(game.lasers) = 1

====
